---------------------------- MODULE Spec2Model ----------------------------
(***************************************************************************)
(* A model of vhdx_inspector: the decode pass of main() over one VHDX file *)
(* (file signature, redundant header, redundant region directory,          *)
(* metadata, block allocation table) and the walk up the parent chain.     *)
(*                                                                         *)
(* Representation.  A file is a record of the structures the decoder       *)
(* reads, keyed by the byte offsets the code seeks to.  Sizes that need    *)
(* more than 31 bits in bytes (block size, virtual disk size) are kept in  *)
(* MiB; the quotients the code computes from them are unchanged by that    *)
(* change of unit as long as both are whole numbers of MiB.  A function    *)
(* returning Fallible<T> yields [tag |-> "Ok", val |-> v] or               *)
(* [tag |-> "Err", msg |-> m]; a panic (unwrap_or_else(panic!), unwrap on  *)
(* None, arithmetic checks) yields [tag |-> "Panic", msg |-> m].           *)
(***************************************************************************)
EXTENDS Integers, Sequences, FiniteSets, TLC

(***************************************************************************)
(* Bounds of the model.                                                    *)
(***************************************************************************)
\* sequence numbers of the header copies range over 0..MaxSeq
MaxSeq == 2
\* explicit leading slots of a region-directory block; the remaining slots
\* of the 64 KiB block all hold one fill entry
RegionSlots == 2
\* passes of the decode loop of main() that the model follows
MaxPasses == 3
\* the largest virtual disk size, in MiB, of the small disks
MaxDiskMiB == 8
\* the largest BAT index at which the small disks hold a chosen word
MaxBatIndex == 6
\* dividends of the divisions range over -MaxDividend..MaxDividend
MaxDividend == 12
\* divisors of the divisions range over -MaxDivisor..MaxDivisor
MaxDivisor == 5

(***************************************************************************)
(* Results.                                                                *)
(***************************************************************************)
Ok(v) == [tag |-> "Ok", val |-> v]

Err(m) == [tag |-> "Err", msg |-> m]

Panic(m) == [tag |-> "Panic", msg |-> m]

None == [tag |-> "None"]

Some(v) == [tag |-> "Some", val |-> v]

IsOk(r) == r.tag = "Ok"

IsSome(o) == o.tag = "Some"

Last(s) == s[Len(s)]

(***************************************************************************)
(* The file handle (std::fs::File): the contents of a file together with   *)
(* pos, the position of its cursor.                                        *)
(***************************************************************************)
Handle(file, position) == [pos |-> position] @@ file

SeekFrom_Start(offset) == [whence |-> "Start", offset |-> offset]

SeekFrom_Current(offset) == [whence |-> "Current", offset |-> offset]

\* data.seek(from): the handle with its cursor moved
Seek(data, from) ==
    [pos |-> IF from.whence = "Start" THEN from.offset ELSE data.pos + from.offset] @@ data

(***************************************************************************)
(* checksum.rs                                                             *)
(***************************************************************************)
CHECKSUM_LENGTH == 4

\* The checksum is kept to 16 bits: TLC's integers are 32 bits wide.
CrcModulus == 65536

RECURSIVE CrcFold(_, _, _)
CrcFold(data, i, acc) ==
    IF i > Len(data) THEN acc
    ELSE CrcFold(data, i + 1,
                 (acc * 31 + (data[i] % CrcModulus) + 3 * (data[i] \div CrcModulus) + i)
                     % CrcModulus)

\* crc32c::crc32c of the external crate: a digest of the buffer that depends
\* on every cell and on its position.
crc32c(data) == CrcFold(data, 1, 1)

\* A buffer is a sequence of cells; the cells before the checksum are
\* CHECKSUM_LENGTH bytes wide, so byte offset o is cell o / 4 + 1.
Splice(data, offset) == [data EXCEPT ![(offset \div CHECKSUM_LENGTH) + 1] = 0]

check_checksum(data, offset, expected, type_name) ==
    LET check == crc32c(Splice(data, offset))
    IN  IF expected = check THEN Ok(TRUE) ELSE Err(type_name \o " signature is invalid.")

(***************************************************************************)
(* UUIDs.  The well-known ids keep their text; the others stand for any    *)
(* id the code does not know.                                              *)
(***************************************************************************)
REGION_BAT == "2DC27766-F623-4200-9D64-115E9BFD4A08"

REGION_METADATA == "8B7CA206-4790-4B9A-B8FE-575F050F886E"

METADATA_FILE_PARAMETERS == "CAA16737-FA36-4D43-B3B6-33F0AA44E76B"

METADATA_VIRTUAL_DISK_SIZE == "2FA54224-CD1B-4876-B211-5DBED83BF4B8"

METADATA_VIRTUAL_DISK_ID == "BECA12AB-B2E6-4523-93EF-C309E000C746"

METADATA_LOGICAL_SECTOR_SIZE == "8141BF1D-A96F-4709-BA47-F233A8FAAB5F"

METADATA_PHYSICAL_SECTOR_SIZE == "CDA348C7-445D-4471-9CC9-E9885251C556"

METADATA_PARENT_LOCATOR == "A8D35F2D-B30B-454D-ABF7-D3D84834AB0C"

METADATA_PARENT_LOCATOR_VHDX == "B04AEFB7-D19E-4A81-B789-25B8E9445913"

NilUuid == "00000000-0000-0000-0000-000000000000"

OtherUuid == "11111111-1111-1111-1111-111111111111"

OtherUuid2 == "22222222-2222-2222-2222-222222222222"

UuidList ==
    << NilUuid, OtherUuid, OtherUuid2, REGION_BAT, REGION_METADATA,
       METADATA_FILE_PARAMETERS, METADATA_VIRTUAL_DISK_SIZE, METADATA_VIRTUAL_DISK_ID,
       METADATA_LOGICAL_SECTOR_SIZE, METADATA_PHYSICAL_SECTOR_SIZE,
       METADATA_PARENT_LOCATOR, METADATA_PARENT_LOCATOR_VHDX >>

\* the cell a UUID occupies in a checksummed buffer
UuidWord(u) == CHOOSE i \in 1..Len(UuidList) : UuidList[i] = u

(***************************************************************************)
(* vhd_header.rs                                                           *)
(***************************************************************************)
FIRST_HEADER_OFFSET == 65536

SECOND_HEADER_OFFSET == 131072

\* the bytes 68 65 61 64 read as a little-endian word
VHD_HEADER_SIG == 1684104552

VHD_HEADER_SIG_LEN == 4

\* The 4096-byte block of a header copy as read_into() fetches it: the
\* signature, the checksum, the sequence number, the data write id and the
\* rest of the block (the other fields and the unused tail) as one cell.
HeaderBuf(h) ==
    << h.signature, h.checksum, h.sequence_number, UuidWord(h.data_write_id), h.rest >>

\* VhdHeader::new: the fields decoded from the block (those the program
\* later uses; the others are carried in rest)
VhdHeader(h) ==
    [ checksum        |-> h.checksum,
      sequence_number |-> h.sequence_number,
      data_write_id   |-> h.data_write_id ]

\* check_vhdx_header_valid without its call of check_checksum
check_vhdx_header_valid_signature_only(data, header_offset, checksum, signature) ==
    IF signature # VHD_HEADER_SIG THEN Err("VHDX header signature is invalid.") ELSE Ok(TRUE)

check_vhdx_header_valid(data, header_offset, checksum, signature) ==
    IF signature # VHD_HEADER_SIG THEN Err("VHDX header signature is invalid.")
    ELSE LET header_buf == Splice(HeaderBuf(data.header[header_offset]), VHD_HEADER_SIG_LEN)
         IN  check_checksum(header_buf, VHD_HEADER_SIG_LEN, checksum, "VHDX header")

\* the header block that starts at the cursor; a position where the file
\* holds no header copy is read as zero bytes
ZeroHeaderBlock ==
    [ signature |-> 0, checksum |-> 0, sequence_number |-> 0, data_write_id |-> NilUuid,
      rest |-> 0 ]

HeaderBlockAt(data) ==
    IF data.pos \in DOMAIN data.header THEN data.header[data.pos] ELSE ZeroHeaderBlock

\* sig and check_checksum are read where the first seek leaves the cursor;
\* read_into and the seek before VhdHeader::new go to header_offset by
\* themselves
read_specific_vhdx_header(data, header_offset) ==
    LET sought         == Seek(data, SeekFrom_Start(header_offset))
        sig            == HeaderBlockAt(sought).signature
        check_checksum_ == HeaderBlockAt(sought).checksum
        valid          == check_vhdx_header_valid(data, header_offset, check_checksum_, sig)
    IN  IF ~IsOk(valid) THEN valid
        ELSE Ok(VhdHeader(data.header[header_offset]))

\* read_vhdx_header with its comparison turned round: the copy
\* with the smaller sequence number wins
read_vhdx_header_smaller(data) ==
    LET header1 == read_specific_vhdx_header(data, FIRST_HEADER_OFFSET)
        header2 == read_specific_vhdx_header(data, SECOND_HEADER_OFFSET)
    IN  IF ~IsOk(header1) THEN header1
        ELSE IF ~IsOk(header2) THEN header2
        ELSE IF header1.val.sequence_number = header2.val.sequence_number
             THEN Err("Header sequence numbers are identical.")
        ELSE IF header1.val.sequence_number < header2.val.sequence_number
             THEN Ok(<< FIRST_HEADER_OFFSET, header1.val >>)
        ELSE Ok(<< SECOND_HEADER_OFFSET, header2.val >>)

read_vhdx_header(data) ==
    LET header1 == read_specific_vhdx_header(data, FIRST_HEADER_OFFSET)
        header2 == read_specific_vhdx_header(data, SECOND_HEADER_OFFSET)
    IN  IF ~IsOk(header1) THEN header1
        ELSE IF ~IsOk(header2) THEN header2
        ELSE IF header1.val.sequence_number = header2.val.sequence_number
             THEN Err("Header sequence numbers are identical.")
        ELSE IF header1.val.sequence_number > header2.val.sequence_number
             THEN Ok(<< FIRST_HEADER_OFFSET, header1.val >>)
        ELSE Ok(<< SECOND_HEADER_OFFSET, header2.val >>)

(***************************************************************************)
(* region.rs                                                               *)
(***************************************************************************)
FIRST_REGION_TAB_OFFSET == 196608

SECOND_REGION_TAB_OFFSET == 262144

REGION_TAB_LEN == 65536

REGION_TAB_HEADER_LEN == 16

\* the bytes 72 65 67 69 read as a little-endian word
REGION_TAB_HEADER_SIG == 1768383858

REGION_TAB_HEADER_SIG_LEN == 4

REGION_TAB_ENTRY_LEN == 32

MAX_REGION_ENTRIES == 2047

MIN_REGION_OFFSET == 1048576

REGION_OFFSET_FACTOR == 1048576

REGION_SIZE_FACTOR == 1048576

\* The 64 KiB block of a region-directory copy: signature, checksum, entry
\* count, the reserved word, the entry slots and the unused tail.  The first
\* RegionSlots slots are explicit, every later slot holds the fill entry.
RegionEntryCells(e) ==
    << UuidWord(e.object_id), e.object_offset, e.object_length, e.flags >>

RECURSIVE RegionSlotCells(_, _)
RegionSlotCells(slots, i) ==
    IF i > Len(slots) THEN << >>
    ELSE RegionEntryCells(slots[i]) \o RegionSlotCells(slots, i + 1)

RegionBuf(b) ==
    << b.signature, b.checksum, b.entry_count, b.reserved >>
        \o RegionSlotCells(b.slots, 1) \o RegionEntryCells(b.fill) \o << b.tail >>

\* the raw 32 bytes at an absolute entry offset of the file
RegionSlotAt(data, entry_offset) ==
    LET table_offset == IF entry_offset >= SECOND_REGION_TAB_OFFSET
                        THEN SECOND_REGION_TAB_OFFSET ELSE FIRST_REGION_TAB_OFFSET
        n == (entry_offset - table_offset - REGION_TAB_HEADER_LEN) \div REGION_TAB_ENTRY_LEN
        b == data.region[table_offset]
    IN  IF n < Len(b.slots) THEN b.slots[n + 1] ELSE b.fill

\* ReadValueOtherTyped for bool (reader.rs): the word read is compared with 0
ReadBool(word) == word # 0

\* RegionTableEntry::new; region_type is the default until classified
RegionTableEntry(raw) ==
    [ region_type   |-> "Unknown",
      object_id     |-> raw.object_id,
      object_offset |-> raw.object_offset,
      object_length |-> raw.object_length,
      required      |-> ReadBool(raw.flags) ]

\* RegionTable::new
RegionTable(b) == [ checksum |-> b.checksum, entry_count |-> b.entry_count, entries |-> << >> ]

\* check_region_entry_valid without the ensure! on object_length
check_region_entry_valid_no_length(entry) ==
    IF ~(entry.object_offset >= MIN_REGION_OFFSET)
        THEN Err("Region object offset is smaller than the specified minimum.")
    ELSE IF ~(entry.object_offset % REGION_OFFSET_FACTOR = 0)
        THEN Err("Region object offset is not a multiple of the specified factor.")
    ELSE IF ~(entry.region_type # "Unknown" \/ ~entry.required)
        THEN Err("Required object ID is not recognised by this version of this program.")
    ELSE Ok(TRUE)

check_region_entry_valid(entry) ==
    IF ~(entry.object_offset >= MIN_REGION_OFFSET)
        THEN Err("Region object offset is smaller than the specified minimum.")
    ELSE IF ~(entry.object_offset % REGION_OFFSET_FACTOR = 0)
        THEN Err("Region object offset is not a multiple of the specified factor.")
    ELSE IF ~(entry.object_length % REGION_SIZE_FACTOR = 0)
        THEN Err("Region object size is not a multiple of the specified factor.")
    ELSE IF ~(entry.region_type # "Unknown" \/ ~entry.required)
        THEN Err("Required object ID is not recognised by this version of this program.")
    ELSE Ok(TRUE)

read_region_entry(data, entry_offset) ==
    LET new   == RegionTableEntry(RegionSlotAt(data, entry_offset))
        entry == [new EXCEPT !.region_type =
                     IF new.object_id = REGION_BAT THEN "BAT"
                     ELSE IF new.object_id = REGION_METADATA THEN "Metadata"
                     ELSE "Unknown"]
        valid == check_region_entry_valid(entry)
    IN  IF ~IsOk(valid) THEN valid ELSE Ok(entry)

check_region_header_valid(data, header_offset, signature, table) ==
    IF signature # REGION_TAB_HEADER_SIG THEN Err("Region header signature is invalid.")
    ELSE LET header_buf == Splice(RegionBuf(data.region[header_offset]), REGION_TAB_HEADER_SIG_LEN)
             sum        == check_checksum(header_buf, REGION_TAB_HEADER_SIG_LEN, table.checksum,
                                          "VHDX header")
         IN  IF ~IsOk(sum) THEN sum
             ELSE IF ~(table.entry_count < MAX_REGION_ENTRIES)
                 THEN Err("Region table entry count exceeds the specified maximum.")
             ELSE Ok(TRUE)

\* the region-directory block that starts at the cursor; a position where
\* the file holds no copy is read as zero bytes
ZeroRegionBlock ==
    [ signature |-> 0, checksum |-> 0, entry_count |-> 0, reserved |-> 0, slots |-> << >>,
      fill |-> [object_id |-> NilUuid, object_offset |-> 0, object_length |-> 0, flags |-> 0],
      tail |-> 0 ]

RegionBlockAt(data) ==
    IF data.pos \in DOMAIN data.region THEN data.region[data.pos] ELSE ZeroRegionBlock

\* signature, checksum and entry count are read where the first seek leaves
\* the cursor; read_into and read_region_entry seek by themselves
read_specific_region(data, table_offset) ==
    LET sought    == Seek(data, SeekFrom_Start(table_offset))
        signature == RegionBlockAt(sought).signature
        table     == RegionTable(RegionBlockAt(sought))
        valid     == check_region_header_valid(data, table_offset, signature, table)
        \* the entry loop: read[n] is the n-th call of read_region_entry
        read      == [ n \in 1..table.entry_count |->
                         read_region_entry(data, table_offset + REGION_TAB_HEADER_LEN
                                                   + ((n - 1) * REGION_TAB_ENTRY_LEN)) ]
        failed    == { n \in 1..table.entry_count : ~IsOk(read[n]) }
    IN  IF ~IsOk(valid) THEN valid
        ELSE IF failed # {}
            THEN read[CHOOSE n \in failed : \A m \in failed : n <= m]
        ELSE Ok([table EXCEPT !.entries = [ n \in 1..table.entry_count |-> read[n].val ]])

\* an equality of RegionTable that compares the entry lists alone
RegionTableEq_entries(region1, region2) == region1.entries = region2.entries

\* the derived PartialEq of RegionTable: checksum, entry_count and entries
RegionTableEq(region1, region2) ==
    /\ region1.checksum = region2.checksum
    /\ region1.entry_count = region2.entry_count
    /\ region1.entries = region2.entries

read_region(data) ==
    LET region1 == read_specific_region(data, FIRST_REGION_TAB_OFFSET)
        region2 == read_specific_region(data, SECOND_REGION_TAB_OFFSET)
    IN  IF ~IsOk(region1) THEN region1
        ELSE IF ~IsOk(region2) THEN region2
        ELSE IF ~RegionTableEq(region1.val, region2.val) THEN Err("Regions do not match.")
        ELSE Ok(region1.val)

(***************************************************************************)
(* metadata.rs                                                             *)
(*                                                                         *)
(* The bytes of a region live in data.areas[offset].  A metadata area is   *)
(*   [kind |-> "metadata", signature, entry_count, slots, values]          *)
(* with slots the raw directory entries and values the payloads by their   *)
(* offset in the region; bytes the record does not describe are zero.      *)
(***************************************************************************)
METADATA_HEADER_LEN == 32

\* the bytes 6d 65 74 61 64 61 74 61
METADATA_HEADER_SIG == "metadata"

METADATA_ENTRY_LEN == 32

METADATA_PARENT_LOCATOR_HEADER_LEN == 20

METADATA_PARENT_LOCATOR_ENTRY_LEN == 12

METADATA_ENTRY_IS_USER_FLAG == 1

METADATA_ENTRY_IS_VIRTUAL_DISK_FLAG == 2

METADATA_ENTRY_IS_REQUIRED_FLAG == 4

METADATA_LEAVE_ALLOCATED_FLAG == 1

METADATA_HAS_PARENT_FLAG == 2

PARENT_LOCATOR_LINKAGE1_KEY == "parent_linkage"

PARENT_LOCATOR_LINKAGE2_KEY == "parent_linkage2"

PARENT_LOCATOR_RELATIVE_PATH_KEY == "relative_path"

PARENT_LOCATOR_VOLUME_PATH_KEY == "volume_path"

PARENT_LOCATOR_ABSOLUTE_PATH_KEY == "absolute_win32_path"

\* flags & mask != 0, for a mask of one bit
HasFlag(flags, mask) == (flags \div mask) % 2 = 1

ZeroArea == [kind |-> "zero"]

\* the area that starts at a byte offset of the file
AreaAt(data, offset) ==
    IF offset \in DOMAIN data.areas THEN data.areas[offset] ELSE ZeroArea

ZeroMetadataSlot == [object_id |-> NilUuid, object_offset |-> 0, object_length |-> 0, flags |-> 0]

\* the raw 32 bytes of directory entry n (from 0) of the area at table_offset
MetadataSlotAt(data, table_offset, n) ==
    LET a == AreaAt(data, table_offset)
    IN  IF a.kind = "metadata" /\ n < Len(a.slots) THEN a.slots[n + 1] ELSE ZeroMetadataSlot

\* the payload of a kind at an offset of the region; zero bytes where the
\* file holds no payload of that kind
ZeroValue(kind) ==
    [ kind |-> kind, block_size |-> 0, flags |-> 0, size |-> 0, id |-> NilUuid, word |-> 0,
      locator_type_id |-> NilUuid, key_value_count |-> 0, entries |-> << >>,
      strings |-> << >> ]

ValueAt(data, table_offset, object_offset, kind) ==
    LET a == AreaAt(data, table_offset)
    IN  IF /\ a.kind = "metadata"
           /\ object_offset \in DOMAIN a.values
           /\ a.values[object_offset].kind = kind
        THEN a.values[object_offset]
        ELSE ZeroValue(kind)

\* MetadataTableEntry::new
MetadataTableEntry(raw) ==
    [ metadata_type   |-> "Unknown",
      object_id       |-> raw.object_id,
      object_offset   |-> raw.object_offset,
      object_length   |-> raw.object_length,
      is_user         |-> HasFlag(raw.flags, METADATA_ENTRY_IS_USER_FLAG),
      is_virtual_disk |-> HasFlag(raw.flags, METADATA_ENTRY_IS_VIRTUAL_DISK_FLAG),
      is_required     |-> HasFlag(raw.flags, METADATA_ENTRY_IS_REQUIRED_FLAG) ]

\* FileParameters::new
FileParameters(v) ==
    [ block_size            |-> v.block_size,
      leave_block_allocated |-> HasFlag(v.flags, METADATA_LEAVE_ALLOCATED_FLAG),
      has_parent            |-> HasFlag(v.flags, METADATA_HAS_PARENT_FLAG) ]

\* Metadata::default
DefaultMetadata ==
    [ file_parameters      |-> [block_size |-> 0, leave_block_allocated |-> FALSE,
                                has_parent |-> FALSE],
      virtual_disk_size    |-> 0,
      virtual_disk_id      |-> NilUuid,
      logical_sector_size  |-> 0,
      physical_sector_size |-> 0,
      parent_locator_dict  |-> None,
      parent_locator       |-> None ]

\* ParentLocator::default
DefaultParentLocator ==
    [ locator_type        |-> "Unknown",
      parent_linkage      |-> NilUuid,
      parent_linkage2     |-> NilUuid,
      relative_path       |-> "",
      volume_path         |-> "",
      absolute_win32_path |-> "" ]

\* Each reader below yields Ok([v |-> value, pos |-> cursor after the read]).
read_file_parameters(data, item_data, table_offset) ==
    Ok([ v   |-> FileParameters(ValueAt(data, table_offset, item_data.object_offset,
                                        "FileParameters")),
         pos |-> table_offset + item_data.object_offset + 8 ])

read_virtual_disk_size(data, item_data, table_offset) ==
    Ok([ v   |-> ValueAt(data, table_offset, item_data.object_offset, "VirtualDiskSize").size,
         pos |-> table_offset + item_data.object_offset + 8 ])

read_virtual_disk_id(data, item_data, table_offset) ==
    Ok([ v   |-> ValueAt(data, table_offset, item_data.object_offset, "VirtualDiskId").id,
         pos |-> table_offset + item_data.object_offset + 16 ])

read_logical_sector_size(data, item_data, table_offset) ==
    Ok([ v   |-> ValueAt(data, table_offset, item_data.object_offset, "LogicalSectorSize").word,
         pos |-> table_offset + item_data.object_offset + 4 ])

read_physical_sector_size(data, item_data, table_offset) ==
    Ok([ v   |-> ValueAt(data, table_offset, item_data.object_offset, "PhysicalSectorSize").word,
         pos |-> table_offset + item_data.object_offset + 4 ])

\* A string of the file: its text and its length in UTF-16 units.  A text of
\* NulTexts holds an embedded NUL.
NulTexts == { "relative_path\\0", "a\\0b" }

\* units that are no UTF-16 text (an unpaired surrogate): String::from_utf16
\* fails on them
InvalidUtf16 == "<unpaired surrogate>"

ZeroDescriptor == [key_offset |-> 0, value_offset |-> 0, key_length |-> 0, value_length |-> 0]

\* ReadValue for String at an offset: capacity (byte length / 2) units are
\* read; the text stored there is returned when it has that many units, the
\* empty string for no units, and otherwise some other text
ReadString(strings, offset, byte_length) ==
    IF byte_length \div 2 = 0 THEN ""
    ELSE IF \E i \in 1..Len(strings) :
                strings[i].offset = offset /\ strings[i].units = byte_length \div 2
         THEN strings[CHOOSE i \in 1..Len(strings) :
                strings[i].offset = offset /\ strings[i].units = byte_length \div 2].text
    ELSE "?"

\* ParentLocatorEntry::new; the strings are read at table_offset + key_offset
\* and table_offset + value_offset, table_offset being what the caller passes
ParentLocatorEntry(v, n, table_offset, locator_start) ==
    LET d == IF n < Len(v.entries) THEN v.entries[n + 1] ELSE ZeroDescriptor
    IN  [ key_offset   |-> d.key_offset,
          value_offset |-> d.value_offset,
          key_length   |-> d.key_length,
          value_length |-> d.value_length,
          key          |-> ReadString(v.strings, table_offset + d.key_offset - locator_start,
                                      d.key_length),
          value        |-> ReadString(v.strings, table_offset + d.value_offset - locator_start,
                                      d.value_length),
          pos          |-> table_offset + d.value_offset + 2 * (d.value_length \div 2) ]

check_parent_locator_entry_valid(entry) ==
    IF entry.key \in NulTexts THEN Err("Parent locator value contains a null.")
    ELSE IF entry.value \in NulTexts THEN Err("Parent locator value contains a null.")
    ELSE Ok(TRUE)

\* the texts Uuid::parse_str accepts
ParsesAsUuid(text) == \E i \in 1..Len(UuidList) : UuidList[i] = text

\* the match of read_parent_locator with linkage arms that leave the field
\* at its default when the value is no UUID text
ParentLocatorMatch_default(entry, valid, acc) ==
    LET plain == [ key_offset |-> entry.key_offset, value_offset |-> entry.value_offset,
                   key_length |-> entry.key_length, value_length |-> entry.value_length,
                   key |-> entry.key, value |-> entry.value ]
        table == [acc.val.table EXCEPT !.entries = Append(@, plain)]
        loc   == acc.val.locator
        next(l) == Ok([table |-> table, locator |-> l, pos |-> entry.pos])
    IN  IF ~IsOk(valid) THEN valid
        ELSE IF entry.key = PARENT_LOCATOR_LINKAGE1_KEY
            THEN IF ParsesAsUuid(entry.value)
                 THEN next([loc EXCEPT !.parent_linkage = entry.value])
                 ELSE next(loc)
        ELSE IF entry.key = PARENT_LOCATOR_LINKAGE2_KEY
            THEN IF ParsesAsUuid(entry.value)
                 THEN next([loc EXCEPT !.parent_linkage2 = entry.value])
                 ELSE next(loc)
        ELSE IF entry.key = PARENT_LOCATOR_RELATIVE_PATH_KEY
            THEN next([loc EXCEPT !.relative_path = entry.value])
        ELSE IF entry.key = PARENT_LOCATOR_VOLUME_PATH_KEY
            THEN next([loc EXCEPT !.volume_path = entry.value])
        ELSE IF entry.key = PARENT_LOCATOR_ABSOLUTE_PATH_KEY
            THEN next([loc EXCEPT !.absolute_win32_path = entry.value])
        ELSE Err("Unknown parent locator key.")

\* the match of read_parent_locator with a last arm that accepts the entry
\* and leaves the locator as it is
ParentLocatorMatch_skip(entry, valid, acc) ==
    LET plain == [ key_offset |-> entry.key_offset, value_offset |-> entry.value_offset,
                   key_length |-> entry.key_length, value_length |-> entry.value_length,
                   key |-> entry.key, value |-> entry.value ]
        table == [acc.val.table EXCEPT !.entries = Append(@, plain)]
        loc   == acc.val.locator
        next(l) == Ok([table |-> table, locator |-> l, pos |-> entry.pos])
    IN  IF ~IsOk(valid) THEN valid
        ELSE IF entry.key = PARENT_LOCATOR_LINKAGE1_KEY
            THEN IF ParsesAsUuid(entry.value)
                 THEN next([loc EXCEPT !.parent_linkage = entry.value])
                 ELSE Err("invalid UUID text")
        ELSE IF entry.key = PARENT_LOCATOR_LINKAGE2_KEY
            THEN IF ParsesAsUuid(entry.value)
                 THEN next([loc EXCEPT !.parent_linkage2 = entry.value])
                 ELSE Err("invalid UUID text")
        ELSE IF entry.key = PARENT_LOCATOR_RELATIVE_PATH_KEY
            THEN next([loc EXCEPT !.relative_path = entry.value])
        ELSE IF entry.key = PARENT_LOCATOR_VOLUME_PATH_KEY
            THEN next([loc EXCEPT !.volume_path = entry.value])
        ELSE IF entry.key = PARENT_LOCATOR_ABSOLUTE_PATH_KEY
            THEN next([loc EXCEPT !.absolute_win32_path = entry.value])
        ELSE next(loc)

\* the match of read_parent_locator on the key of the entry it has read
ParentLocatorMatch(entry, valid, acc) ==
    LET plain == [ key_offset |-> entry.key_offset, value_offset |-> entry.value_offset,
                   key_length |-> entry.key_length, value_length |-> entry.value_length,
                   key |-> entry.key, value |-> entry.value ]
        table == [acc.val.table EXCEPT !.entries = Append(@, plain)]
        loc   == acc.val.locator
        next(l) == Ok([table |-> table, locator |-> l, pos |-> entry.pos])
    IN  IF ~IsOk(valid) THEN valid
        ELSE IF entry.key = PARENT_LOCATOR_LINKAGE1_KEY
            THEN IF ParsesAsUuid(entry.value)
                 THEN next([loc EXCEPT !.parent_linkage = entry.value])
                 ELSE Err("invalid UUID text")
        ELSE IF entry.key = PARENT_LOCATOR_LINKAGE2_KEY
            THEN IF ParsesAsUuid(entry.value)
                 THEN next([loc EXCEPT !.parent_linkage2 = entry.value])
                 ELSE Err("invalid UUID text")
        ELSE IF entry.key = PARENT_LOCATOR_RELATIVE_PATH_KEY
            THEN next([loc EXCEPT !.relative_path = entry.value])
        ELSE IF entry.key = PARENT_LOCATOR_VOLUME_PATH_KEY
            THEN next([loc EXCEPT !.volume_path = entry.value])
        ELSE IF entry.key = PARENT_LOCATOR_ABSOLUTE_PATH_KEY
            THEN next([loc EXCEPT !.absolute_win32_path = entry.value])
        ELSE Err("Unknown parent locator key.")

\* the loop body of read_parent_locator: acc is [table, locator, pos] or a
\* failure.  ParentLocatorEntry::new panics when a string cannot be read.
ParentLocatorRead(entry, acc) ==
    IF entry.key = InvalidUtf16 \/ entry.value = InvalidUtf16
    THEN Panic("Failed to read parent locator entry String")
    ELSE ParentLocatorMatch(entry, check_parent_locator_entry_valid(entry), acc)

ParentLocatorStep(v, n, locator_start, acc) ==
    ParentLocatorRead(ParentLocatorEntry(v, n, locator_start, locator_start), acc)

RECURSIVE ParentLocatorLoop(_, _, _, _)
ParentLocatorLoop(v, n, locator_start, acc) ==
    IF ~IsOk(acc) \/ n >= v.key_value_count THEN acc
    ELSE ParentLocatorLoop(v, n + 1, locator_start, ParentLocatorStep(v, n, locator_start, acc))

\* ParentLocatorDict::new and the classification of its type id
ParentLocatorDict(v) ==
    [ locator_type    |-> IF v.locator_type_id = METADATA_PARENT_LOCATOR_VHDX
                          THEN "Vhdx" ELSE "Unknown",
      locator_type_id |-> v.locator_type_id,
      key_value_count |-> v.key_value_count,
      entries         |-> << >> ]

\* what read_parent_locator returns once its loop is over
ParentLocatorDone(table, done) ==
    IF ~IsOk(done) THEN done
    ELSE Ok([ v   |-> << Some(done.val.table),
                         Some([done.val.locator EXCEPT !.locator_type = table.locator_type]) >>,
              pos |-> done.val.pos ])

ParentLocatorFrom(v, table, locator_start) ==
    ParentLocatorDone(table,
        ParentLocatorLoop(v, 0, locator_start,
            Ok([ table |-> table, locator |-> DefaultParentLocator,
                 pos |-> locator_start + METADATA_PARENT_LOCATOR_HEADER_LEN ])))

ParentLocatorAt(v, locator_start) == ParentLocatorFrom(v, ParentLocatorDict(v), locator_start)

read_parent_locator(data, item_data, table_offset) ==
    ParentLocatorAt(ValueAt(data, table_offset, item_data.object_offset, "ParentLocator"),
                    table_offset + item_data.object_offset)

\* check_metadata_table_entry_valid without its ensure!
check_metadata_table_entry_valid_none(entry) == Ok(TRUE)

check_metadata_table_entry_valid(entry) ==
    IF ~(entry.metadata_type # "Unknown" \/ ~entry.is_required)
    THEN Err("Metadata header signature is invalid.")
    ELSE Ok(TRUE)

MetadataTypeOf(object_id) ==
    IF object_id = METADATA_FILE_PARAMETERS THEN "FileParameters"
    ELSE IF object_id = METADATA_VIRTUAL_DISK_SIZE THEN "VirtualDiskSize"
    ELSE IF object_id = METADATA_VIRTUAL_DISK_ID THEN "VirtualDiskId"
    ELSE IF object_id = METADATA_LOGICAL_SECTOR_SIZE THEN "LogicalSectorSize"
    ELSE IF object_id = METADATA_PHYSICAL_SECTOR_SIZE THEN "PhysicalSectorSize"
    ELSE IF object_id = METADATA_PARENT_LOCATOR THEN "ParentLocator"
    ELSE "Unknown"

\* table_offset here is the absolute offset of the entry; region_offset is
\* the start of the area it lies in
read_metadata_entry(data, region_offset, table_offset) ==
    LET n     == (table_offset - region_offset - METADATA_HEADER_LEN) \div METADATA_ENTRY_LEN
        new   == MetadataTableEntry(MetadataSlotAt(data, region_offset, n))
        entry == [new EXCEPT !.metadata_type = MetadataTypeOf(new.object_id)]
        valid == check_metadata_table_entry_valid(entry)
    IN  IF ~IsOk(valid) THEN valid ELSE Ok(entry)

check_metadata_table_header_valid(signature) ==
    IF signature # METADATA_HEADER_SIG THEN Err("Metadata header signature is invalid.")
    ELSE Ok(TRUE)

\* signature and entry count are read where the first seek leaves the
\* cursor; read_metadata_entry seeks by itself
read_metadata_table(data, table_offset, table_length) ==
    LET sought      == Seek(data, SeekFrom_Start(table_offset))
        a           == AreaAt(sought, sought.pos)
        signature   == IF a.kind = "metadata" THEN a.signature ELSE "zero"
        entry_count == IF a.kind = "metadata" THEN a.entry_count ELSE 0
        valid       == check_metadata_table_header_valid(signature)
        read        == [ n \in 0..(entry_count - 1) |->
                           IF ~(n * METADATA_ENTRY_LEN <= table_length)
                           THEN Err("Metadata table is longer than recorded in the region table.")
                           ELSE read_metadata_entry(data, table_offset,
                                    table_offset + METADATA_HEADER_LEN + (n * METADATA_ENTRY_LEN)) ]
        failed      == { n \in 0..(entry_count - 1) : ~IsOk(read[n]) }
    IN  IF ~IsOk(valid) THEN valid
        ELSE IF failed # {} THEN read[CHOOSE n \in failed : \A m \in failed : n <= m]
        ELSE Ok([ entry_count |-> entry_count,
                  entries     |-> [ n \in 1..entry_count |-> read[n - 1].val ] ])

\* the read of read_metadata_values with a last arm that reads nothing and
\* goes on to the next entry
MetadataValueRead_skip(data, item_data, table_offset) ==
    LET t == item_data.metadata_type
    IN       IF t = "FileParameters" THEN read_file_parameters(data, item_data, table_offset)
             ELSE IF t = "VirtualDiskSize" THEN read_virtual_disk_size(data, item_data, table_offset)
             ELSE IF t = "VirtualDiskId" THEN read_virtual_disk_id(data, item_data, table_offset)
             ELSE IF t = "LogicalSectorSize"
                 THEN read_logical_sector_size(data, item_data, table_offset)
             ELSE IF t = "PhysicalSectorSize"
                 THEN read_physical_sector_size(data, item_data, table_offset)
             ELSE IF t = "ParentLocator" THEN read_parent_locator(data, item_data, table_offset)
             ELSE Ok([v |-> << None, None >>, pos |-> table_offset])

\* the read of read_metadata_values for one entry, by its type
MetadataValueRead(data, item_data, table_offset) ==
    LET t == item_data.metadata_type
    IN       IF t = "FileParameters" THEN read_file_parameters(data, item_data, table_offset)
             ELSE IF t = "VirtualDiskSize" THEN read_virtual_disk_size(data, item_data, table_offset)
             ELSE IF t = "VirtualDiskId" THEN read_virtual_disk_id(data, item_data, table_offset)
             ELSE IF t = "LogicalSectorSize"
                 THEN read_logical_sector_size(data, item_data, table_offset)
             ELSE IF t = "PhysicalSectorSize"
                 THEN read_physical_sector_size(data, item_data, table_offset)
             ELSE IF t = "ParentLocator" THEN read_parent_locator(data, item_data, table_offset)
             ELSE Err("Unknown metadata type encountered.")

\* the field of the metadata the value read is stored in: acc is [metadata, pos]
MetadataValueSet(t, r, acc) ==
    LET m == acc.val.metadata
        set(m2) == Ok([metadata |-> m2, pos |-> r.val.pos])
    IN  IF ~IsOk(r) THEN r
        ELSE IF t = "FileParameters" THEN set([m EXCEPT !.file_parameters = r.val.v])
        ELSE IF t = "VirtualDiskSize" THEN set([m EXCEPT !.virtual_disk_size = r.val.v])
        ELSE IF t = "VirtualDiskId" THEN set([m EXCEPT !.virtual_disk_id = r.val.v])
        ELSE IF t = "LogicalSectorSize" THEN set([m EXCEPT !.logical_sector_size = r.val.v])
        ELSE IF t = "PhysicalSectorSize" THEN set([m EXCEPT !.physical_sector_size = r.val.v])
        ELSE set([m EXCEPT !.parent_locator_dict = r.val.v[1], !.parent_locator = r.val.v[2]])

\* the loop body of read_metadata_values
MetadataValueStep(data, item_data, table_offset, acc) ==
    MetadataValueSet(item_data.metadata_type,
                     MetadataValueRead(data, item_data, table_offset), acc)

RECURSIVE MetadataValueLoop(_, _, _, _, _)
MetadataValueLoop(data, entries, i, table_offset, acc) ==
    IF ~IsOk(acc) \/ i > Len(entries) THEN acc
    ELSE MetadataValueLoop(data, entries, i + 1, table_offset,
                           MetadataValueStep(data, entries[i], table_offset, acc))

\* the check of read_metadata_values once its loop is over
MetadataValuesDone(done, table_offset, table_length) ==
    IF ~IsOk(done) THEN done
    ELSE IF ~(done.val.pos <= table_offset + table_length)
        THEN Err("Metadata table is longer than recorded in the region table.")
    ELSE Ok(done.val.metadata)

read_metadata_values(data, table, table_offset, table_length) ==
    MetadataValuesDone(
        MetadataValueLoop(data, table.entries, 1, table_offset,
                          Ok([metadata |-> DefaultMetadata,
                              pos |-> Seek(data, SeekFrom_Start(table_offset)).pos])),
        table_offset, table_length)

\* check_metadata_valid without its ensure!
check_metadata_valid_none(metadata) == Ok(TRUE)

check_metadata_valid(metadata) ==
    IF ~(~metadata.file_parameters.has_parent \/ IsSome(metadata.parent_locator))
    THEN Err("File parameter 'HasParent' is set and the file does not contain a parent locator.")
    ELSE Ok(TRUE)

\* read_metadata after its values are read
MetadataChecked(table, metadata, valid) ==
    IF ~IsOk(valid) THEN valid ELSE Ok(<< table, metadata >>)

MetadataWithValues(table, metadata) ==
    IF ~IsOk(metadata) THEN metadata
    ELSE MetadataChecked(table, metadata.val, check_metadata_valid(metadata.val))

\* read_metadata after its table is read
MetadataWithTable(data, region_data, table) ==
    IF ~IsOk(table) THEN table
    ELSE MetadataWithValues(table.val,
             read_metadata_values(data, table.val, region_data.object_offset,
                                  region_data.object_length))

read_metadata(data, region_data) ==
    IF region_data.region_type # "Metadata"
    THEN Err("Passed region data is not for the Metadata region.")
    ELSE MetadataWithTable(data, region_data,
             read_metadata_table(data, region_data.object_offset, region_data.object_length))

(***************************************************************************)
(* maths.rs (divide_unsigned!(u64)); a division by zero panics             *)
(***************************************************************************)
ceiling_divide_u64(n, d) == (n \div d) + (IF n % d # 0 THEN 1 ELSE 0)

floor_divide_u64(n, d) == n \div d

(***************************************************************************)
(* maths.rs (divide_signed!(i64)).  The / of Rust truncates towards zero   *)
(* and its % takes the sign of the dividend.                               *)
(***************************************************************************)
Abs(x) == IF x < 0 THEN 0 - x ELSE x

\* n / d of a signed integer type, d # 0
RustDiv(n, d) ==
    IF (n < 0) = (d < 0) THEN Abs(n) \div Abs(d) ELSE 0 - (Abs(n) \div Abs(d))

\* n % d of a signed integer type, d # 0
RustRem(n, d) == IF n < 0 THEN 0 - (Abs(n) % Abs(d)) ELSE Abs(n) % Abs(d)

\* <T as From<bool>>::from(b)
FromBool(b) == IF b THEN 1 ELSE 0

\* the ceiling with the correction of the unsigned implementation
ceiling_divide_i64_unsigned(n, d) == RustDiv(n, d) + FromBool(RustRem(n, d) # 0)

ceiling_divide_i64(n, d) ==
    RustDiv(n, d) + FromBool(RustRem(n, d) # 0 /\ ((n < 0) = (d < 0)))

floor_divide_i64(n, d) ==
    RustDiv(n, d) - FromBool(RustRem(n, d) # 0 /\ ((n < 0) # (d < 0)))

\* SpecificDivide::ceiling_divide of the implementation for type t
ceiling_divide(t, n, d) ==
    IF d = 0 THEN Panic("attempt to divide by zero")
    ELSE IF t = "u64" THEN Ok(ceiling_divide_u64(n, d))
    ELSE Ok(ceiling_divide_i64(n, d))

\* SpecificDivide::floor_divide of the implementation for type t
floor_divide(t, n, d) ==
    IF d = 0 THEN Panic("attempt to divide by zero")
    ELSE IF t = "u64" THEN Ok(floor_divide_u64(n, d))
    ELSE Ok(floor_divide_i64(n, d))

(***************************************************************************)
(* block.rs                                                                *)
(*                                                                         *)
(* A BAT area is [kind |-> "bat", default, exc]: the 64-bit word at index  *)
(* n (from 0) is exc[n] where given and default elsewhere.  A word is      *)
(* state + 8 * reserved + 2^20 * offset_mb.                                *)
(***************************************************************************)
MiB == 1048576

CHUNK_RATIO_MULTIPLIER == 8388608

BAT_ENTRY_LEN == 32

BAT_ENTRY_STATE_MASK == 7

\* BAT_ENTRY_OFFSET_MASK keeps bits 20..63: the shift that follows it
BAT_ENTRY_OFFSET_SHIFT == 1048576

\* the value u64 0 - 1 wraps to in a build without overflow checks (2^64 - 1);
\* the largest integer of the model stands for it
U64_MAX == 2147483647

\* the 64-bit word read at index n of the area at a byte offset.  An area
\* that is not a BAT starts with its own bytes: the metadata signature has
\* low bits 101, an area the file does not describe is zero.
BatWordAt(data, offset, n) ==
    LET a == AreaAt(data, offset)
    IN  IF a.kind = "bat" THEN (IF n \in DOMAIN a.exc THEN a.exc[n] ELSE a.default)
        ELSE IF a.kind = "metadata" /\ n = 0 THEN 5
        ELSE 0

\* TryFrom<u64> for PayloadBlockState
PayloadBlockState_try_from(value) ==
    IF value = 0 THEN Ok("NotPresent")
    ELSE IF value = 1 THEN Ok("Undefined")
    ELSE IF value = 2 THEN Ok("Zero")
    ELSE IF value = 3 THEN Ok("Unmapped")
    ELSE IF value = 6 THEN Ok("FullyPresent")
    ELSE IF value = 7 THEN Ok("PartiallyPresent")
    ELSE Err("()")

\* TryFrom<u64> for SectorBlockState
SectorBlockState_try_from(value) ==
    IF value = 0 THEN Ok("NotPresent")
    ELSE IF value = 6 THEN Ok("Present")
    ELSE Err("()")

\* PayloadEntry::new on the word it reads
PayloadEntry(value) ==
    LET state == PayloadBlockState_try_from(value % (BAT_ENTRY_STATE_MASK + 1))
    IN  IF ~IsOk(state) THEN Panic("Value is not a valid PayloadBlockState")
        ELSE Ok([ kind |-> "payload", state |-> state.val,
                  file_offset_mb |-> value \div BAT_ENTRY_OFFSET_SHIFT ])

\* SectorEntry::new on the word it reads
SectorEntry(value) ==
    LET state == SectorBlockState_try_from(value % (BAT_ENTRY_STATE_MASK + 1))
    IN  IF ~IsOk(state) THEN Panic("Value is not a valid SectorBlockState")
        ELSE Ok([ kind |-> "sector", state |-> state.val,
                  file_offset_mb |-> value \div BAT_ENTRY_OFFSET_SHIFT ])

\* build is "debug" (arithmetic overflow panics) or "release" (it wraps)
calculate_block_values(file_data, build) ==
    IF file_data.file_parameters.block_size = 0 THEN Panic("attempt to divide by zero")
    ELSE
    LET block_size     == file_data.file_parameters.block_size
        chunk_ratio    == ((CHUNK_RATIO_MULTIPLIER \div MiB) * file_data.logical_sector_size)
                              \div block_size
        payload_blocks == ceiling_divide_u64(file_data.virtual_disk_size, block_size)
        sector_blocks  == ceiling_divide_u64(payload_blocks, chunk_ratio)
        minus_one      == IF payload_blocks = 0 THEN U64_MAX ELSE payload_blocks - 1
        total_bat_entries ==
            IF IsSome(file_data.parent_locator)
            THEN payload_blocks + floor_divide_u64(minus_one, chunk_ratio)
            ELSE sector_blocks * (chunk_ratio + 1)
    IN  IF chunk_ratio = 0
            THEN Err("Chunk ratio calculation resulted in 0, cannot calculate BAT.")
        ELSE IF IsSome(file_data.parent_locator) /\ payload_blocks = 0 /\ build = "debug"
            THEN Panic("attempt to subtract with overflow")
        ELSE Ok([ chunk_ratio       |-> chunk_ratio,
                  payload_blocks    |-> payload_blocks,
                  sector_blocks     |-> sector_blocks,
                  total_bat_entries |-> total_bat_entries ])

\* the test with the last index of each chunk taken for its sector entry
IsSectorIndex_chunk_end(n, block_values, has_sectors) ==
    has_sectors /\ n # 0 /\ ((n + 1) % (block_values.chunk_ratio + 1)) = 0

\* whether iteration n of the loop of read_bat_table pushes a sector entry
IsSectorIndex(n, block_values, has_sectors) ==
    has_sectors /\ n # 0 /\ (n % (block_values.chunk_ratio + 1)) = 0

\* iteration n of the loop of read_bat_table: the bounds check, then the
\* entry decoded from the next word of the file.  data is the handle as the
\* seek before the loop left it: the words are read one after the other from
\* there.
BatStep(data, bat_region, block_values, has_sectors, n) ==
    IF ~(n * BAT_ENTRY_LEN <= bat_region.object_length)
    THEN Err("BAT table is longer than recorded in the region table.")
    ELSE IF IsSectorIndex(n, block_values, has_sectors)
        THEN SectorEntry(BatWordAt(data, data.pos, n))
    ELSE PayloadEntry(BatWordAt(data, data.pos, n))

\* the first n in lo..hi-1 whose iteration does not complete, hi if all do
RECURSIVE BatFirstStop(_, _, _, _, _, _)
BatFirstStop(data, bat_region, block_values, has_sectors, lo, hi) ==
    IF hi <= lo THEN hi
    ELSE IF hi - lo = 1
        THEN (IF IsOk(BatStep(data, bat_region, block_values, has_sectors, lo)) THEN hi ELSE lo)
    ELSE LET mid  == lo + ((hi - lo) \div 2)
             left == BatFirstStop(data, bat_region, block_values, has_sectors, lo, mid)
         IN  IF left < mid THEN left
             ELSE BatFirstStop(data, bat_region, block_values, has_sectors, mid, hi)

StripKind(e) == [state |-> e.state, file_offset_mb |-> e.file_offset_mb]

IsPayloadKind(e) == e.kind = "payload"

IsSectorKind(e) == e.kind = "sector"

\* the loop of read_bat_table on the handle the seek has positioned
BatLoop(sought, bat_region, block_values, has_sectors) ==
    LET entry_count == IF has_sectors THEN block_values.total_bat_entries
                       ELSE block_values.payload_blocks
        stop        == BatFirstStop(sought, bat_region, block_values, has_sectors, 0, entry_count)
        pushed      == [ i \in 1..entry_count |->
                           BatStep(sought, bat_region, block_values, has_sectors, i - 1).val ]
        payload     == SelectSeq(pushed, IsPayloadKind)
        sector      == SelectSeq(pushed, IsSectorKind)
    IN  IF stop < entry_count
        THEN BatStep(sought, bat_region, block_values, has_sectors, stop)
        ELSE Ok(<< [ i \in 1..Len(payload) |-> StripKind(payload[i]) ],
                   [ i \in 1..Len(sector) |-> StripKind(sector[i]) ] >>)

\* read_bat_table without its seek: the words are read from wherever the
\* cursor is when it is called
read_bat_table_no_seek(data, bat_region, block_values, has_sectors) ==
    BatLoop(data, bat_region, block_values, has_sectors)

read_bat_table(data, bat_region, block_values, has_sectors) ==
    BatLoop(Seek(data, SeekFrom_Start(bat_region.object_offset)), bat_region, block_values,
            has_sectors)

read_bat(data, bat_region, file_data, has_sectors, build) ==
    IF bat_region.region_type # "BAT" THEN Err("Passed region data is not for the BAT region.")
    ELSE LET block_values == calculate_block_values(file_data, build)
         IN  IF ~IsOk(block_values) THEN block_values
             ELSE read_bat_table(data, bat_region, block_values.val, has_sectors)

(***************************************************************************)
(* file_header.rs                                                          *)
(***************************************************************************)
FILE_HEADER_OFFSET == 0

\* the bytes 76 68 64 78 66 69 6c 65
FILE_HEADER_SIG == "vhdxfile"

FILE_HEADER_SIG_LEN == 8

FILE_HEADER_CREATOR_LEN == 512

check_file_header_valid(signature) ==
    IF signature # FILE_HEADER_SIG THEN Err("File signature is invalid.") ELSE Ok(TRUE)

read_file_header(data) ==
    LET valid == check_file_header_valid(data.file_signature)
    IN  IF ~IsOk(valid) THEN valid ELSE Ok([creator |-> data.creator])

(***************************************************************************)
(* main.rs: the program state                                              *)
(***************************************************************************)
VARIABLES
    files,           \* the file system: path -> file contents (never written)
    follow_chain,    \* the --follow argument
    build,           \* "debug" or "release": whether overflow checks are compiled in
    file_path,       \* the path the current pass decodes
    parent_locator,  \* main's Option<ParentLocator>: Some while following a chain
    disk_type,       \* main's VhdType
    pc,              \* the next call of the loop body
    pass,            \* the number of the current pass of the loop, from 1
    header,          \* the results of the calls of the current pass ...
    vhdx_header,
    region_table,
    regions,         \* ... [metadata_region, bat_region] once both are found
    metadata,
    bat,
    exit,            \* "running", or how main ended: "ok", "err", "panic", "cut"
    cursor,          \* the position of the cursor of vhdx_file
    division,        \* the calls of SpecificDivide made on their own: None during a
                     \* decode, else [t, n, d, ceiling, floor]
    log              \* history: the calls made so far, [pass, path, stage, tag, at],
                     \* at being the cursor position the call was entered with

vars ==
    << files, follow_chain, build, file_path, parent_locator, disk_type, pc, pass, header,
       vhdx_header, region_table, regions, metadata, bat, exit, cursor, division, log >>

Stages == << "open", "file_header", "vhdx_header", "region", "locate", "metadata", "bat", "finish" >>

\* calc_parent_path: the first of the three paths that is set and exists
calc_parent_path(locator, fs) ==
    IF locator.relative_path # "" /\ locator.relative_path \in DOMAIN fs
        THEN Ok(locator.relative_path)
    ELSE IF locator.volume_path # "" /\ locator.volume_path \in DOMAIN fs
        THEN Ok(locator.volume_path)
    ELSE IF locator.absolute_win32_path # "" /\ locator.absolute_win32_path \in DOMAIN fs
        THEN Ok(locator.absolute_win32_path)
    ELSE Err("Could not find parent with any of the paths.")

\* region_table.entries.iter().find(|x| x.region_type == t): None for no entry
FindRegion(entries, t) ==
    LET hits == { i \in 1..Len(entries) : entries[i].region_type = t }
    IN  IF hits = {} THEN None
        ELSE Some(entries[CHOOSE i \in hits : \A j \in hits : i <= j])

Event(stage, r) ==
    [pass |-> pass, path |-> file_path, stage |-> stage, tag |-> r.tag, at |-> cursor]

\* the bytes of one u64
U64Len == 8

\* the bytes VhdHeader::new reads: checksum, sequence number, three ids, two
\* versions, log length and log offset
VhdHeaderFieldsLen == 4 + 8 + 16 + 16 + 16 + 2 + 2 + 4 + 8

\* Where each call leaves the cursor when it returns Ok.
\* read_file_header: behind the creator string
FileHeaderEnd == FILE_HEADER_OFFSET + FILE_HEADER_SIG_LEN + FILE_HEADER_CREATOR_LEN

\* read_vhdx_header: behind the fields of the second copy
VhdxHeaderEnd == SECOND_HEADER_OFFSET + VHD_HEADER_SIG_LEN + VhdHeaderFieldsLen

\* read_region: behind the last entry of the second copy, or behind the
\* block read_into has read when the copy has no entry
RegionEnd(table) ==
    IF table.entry_count = 0 THEN SECOND_REGION_TAB_OFFSET + REGION_TAB_LEN
    ELSE SECOND_REGION_TAB_OFFSET + REGION_TAB_HEADER_LEN
             + (table.entry_count * REGION_TAB_ENTRY_LEN)

\* read_metadata: where the loop of read_metadata_values ends
MetadataEnd(data, region_data, table) ==
    MetadataValueLoop(data, table.entries, 1, region_data.object_offset,
                      Ok([metadata |-> DefaultMetadata,
                          pos |-> region_data.object_offset])).val.pos

\* read_bat: behind the last word read
BatEnd(bat_region, entries) ==
    bat_region.object_offset + (U64Len * (Len(entries[1]) + Len(entries[2])))

\* a failed call that main does not return from: the call is made again
Leave_retry(r) ==
    /\ exit' = exit
    /\ pc' = pc

\* a call returned r: the ? operator returns from main on Err, a panic aborts it
Leave(r) ==
    /\ exit' = IF r.tag = "Panic" THEN "panic" ELSE "err"
    /\ pc' = "end"

\* let mut vhdx_file = File::open(&file_path)?;
OpenFile ==
    /\ exit = "running" /\ pc = "open"
    /\ LET r == IF file_path \in DOMAIN files THEN Ok(TRUE) ELSE Err("No such file")
       IN  /\ log' = Append(log, Event("open", r))
           /\ cursor' = 0
           /\ IF IsOk(r) THEN pc' = "file_header" /\ exit' = exit ELSE Leave(r)
    /\ UNCHANGED << division, files, follow_chain, build, file_path, parent_locator, disk_type, pass, header,
                    vhdx_header, region_table, regions, metadata, bat >>

\* let header = file_header::read_file_header(&mut vhdx_file)?;
ReadFileHeader ==
    /\ exit = "running" /\ pc = "file_header"
    /\ LET r == read_file_header(Handle(files[file_path], cursor))
       IN  /\ header' = r
           /\ cursor' = IF IsOk(r) THEN FileHeaderEnd ELSE cursor
           /\ log' = Append(log, Event("file_header", r))
           /\ IF IsOk(r) THEN pc' = "vhdx_header" /\ exit' = exit ELSE Leave(r)
    /\ UNCHANGED << division, files, follow_chain, build, file_path, parent_locator, disk_type, pass,
                    vhdx_header, region_table, regions, metadata, bat >>

\* let (vhdx_offset, vhdx_header) = vhd_header::read_vhdx_header(&mut vhdx_file)?;
ReadVhdxHeader ==
    /\ exit = "running" /\ pc = "vhdx_header"
    /\ LET r == read_vhdx_header(Handle(files[file_path], cursor))
       IN  /\ vhdx_header' = r
           /\ cursor' = IF IsOk(r) THEN VhdxHeaderEnd ELSE cursor
           /\ log' = Append(log, Event("vhdx_header", r))
           /\ IF IsOk(r) THEN pc' = "region" /\ exit' = exit ELSE Leave(r)
    /\ UNCHANGED << division, files, follow_chain, build, file_path, parent_locator, disk_type, pass, header,
                    region_table, regions, metadata, bat >>

\* let region_table = region::read_region(&mut vhdx_file)?;
ReadRegion ==
    /\ exit = "running" /\ pc = "region"
    /\ LET r == read_region(Handle(files[file_path], cursor))
       IN  /\ region_table' = r
           /\ cursor' = IF IsOk(r) THEN RegionEnd(r.val) ELSE cursor
           /\ log' = Append(log, Event("region", r))
           /\ IF IsOk(r) THEN pc' = "locate" /\ exit' = exit ELSE Leave(r)
    /\ UNCHANGED << division, files, follow_chain, build, file_path, parent_locator, disk_type, pass, header,
                    vhdx_header, regions, metadata, bat >>

\* the two find(..).unwrap() that pick the Metadata and the BAT entry
LocateRegions ==
    /\ exit = "running" /\ pc = "locate"
    /\ LET metadata_region == FindRegion(region_table.val.entries, "Metadata")
           bat_region      == FindRegion(region_table.val.entries, "BAT")
           r == IF ~IsSome(metadata_region) \/ ~IsSome(bat_region)
                THEN Panic("called Option::unwrap() on a None value")
                ELSE Ok([metadata_region |-> metadata_region.val, bat_region |-> bat_region.val])
       IN  /\ regions' = r
           /\ log' = Append(log, Event("locate", r))
           /\ IF IsOk(r) THEN pc' = "metadata" /\ exit' = exit ELSE Leave(r)
    /\ UNCHANGED << division, files, follow_chain, build, file_path, parent_locator, disk_type, pass, header,
                    vhdx_header, region_table, metadata, bat, cursor >>

\* let (metadata_table, metadata) = metadata::read_metadata(&mut vhdx_file, metadata_region)?;
ReadMetadata ==
    /\ exit = "running" /\ pc = "metadata"
    /\ LET r == read_metadata(Handle(files[file_path], cursor), regions.val.metadata_region)
       IN  /\ metadata' = r
           /\ cursor' = IF IsOk(r)
                        THEN MetadataEnd(files[file_path], regions.val.metadata_region, r.val[1])
                        ELSE cursor
           /\ log' = Append(log, Event("metadata", r))
           /\ IF IsOk(r) THEN pc' = "bat" /\ exit' = exit ELSE Leave(r)
    /\ UNCHANGED << division, files, follow_chain, build, file_path, parent_locator, disk_type, pass, header,
                    vhdx_header, region_table, regions, bat >>

\* let (payload_blocks,sector_blocks) = block::read_bat(&mut vhdx_file, bat_region, &metadata,
\*                                                       parent_locator.is_some())?;
ReadBat ==
    /\ exit = "running" /\ pc = "bat"
    /\ LET r == read_bat(Handle(files[file_path], cursor), regions.val.bat_region,
                         metadata.val[2], IsSome(parent_locator), build)
       IN  /\ bat' = r
           /\ cursor' = IF IsOk(r) THEN BatEnd(regions.val.bat_region, r.val) ELSE cursor
           /\ log' = Append(log, Event("bat", r))
           /\ IF IsOk(r) THEN pc' = "finish" /\ exit' = exit ELSE Leave(r)
    /\ UNCHANGED << division, files, follow_chain, build, file_path, parent_locator, disk_type, pass, header,
                    vhdx_header, region_table, regions, metadata >>

\* the linkage check of a file reached through a parent locator
LinkageCheck(parent, hdr) ==
    IF parent.parent_linkage = hdr.data_write_id THEN Ok(TRUE)
    ELSE IF parent.parent_linkage2 = hdr.data_write_id THEN Ok(TRUE)
    ELSE Err("Parent disk has a Data Write GUID the metadata did not expect.")

\* The rest of the loop body: the linkage check, the disk type, the report,
\* and the step to the parent file or the break.
Finish ==
    /\ exit = "running" /\ pc = "finish"
    /\ LET md      == metadata.val[2]
           linkage == IF IsSome(parent_locator)
                      THEN LinkageCheck(parent_locator.val, vhdx_header.val[2])
                      ELSE Ok(TRUE)
           payload_blocks == bat.val[1]
           dynamic == \E i \in 1..Len(payload_blocks) :
                         payload_blocks[i].state \in {"NotPresent", "PartiallyPresent"}
           type1   == IF IsSome(parent_locator) THEN "Differencing" ELSE disk_type
           follows == follow_chain /\ IsSome(md.parent_locator)
           vhdx    == follows /\ md.parent_locator.val.locator_type = "Vhdx"
           path    == IF vhdx THEN calc_parent_path(md.parent_locator.val, files)
                      ELSE Ok(file_path)
           r       == IF ~IsOk(linkage) THEN linkage ELSE path
       IN  /\ log' = Append(log, Event("finish", r))
           /\ IF ~IsOk(linkage)
              THEN /\ Leave(linkage)
                   /\ parent_locator' = None
                   /\ disk_type' = "Differencing"
                   /\ UNCHANGED << file_path, pass, header, vhdx_header, region_table, regions,
                                   metadata, bat >>
              ELSE /\ disk_type' = IF dynamic THEN "Dynamic" ELSE type1
                   /\ parent_locator' = IF vhdx THEN md.parent_locator ELSE None
                   /\ IF ~IsOk(path)
                      THEN /\ Leave(path)
                           /\ UNCHANGED << file_path, pass, header, vhdx_header, region_table,
                                           regions, metadata, bat >>
                      ELSE IF ~follows
                      THEN /\ exit' = "ok" /\ pc' = "end"
                           /\ UNCHANGED << file_path, pass, header, vhdx_header, region_table,
                                           regions, metadata, bat >>
                      ELSE IF pass >= MaxPasses
                      THEN /\ exit' = "cut" /\ pc' = "end"
                           /\ UNCHANGED << file_path, pass, header, vhdx_header, region_table,
                                           regions, metadata, bat >>
                      ELSE /\ exit' = exit /\ pc' = "open"
                           /\ file_path' = path.val
                           /\ pass' = pass + 1
                           /\ header' = None /\ vhdx_header' = None /\ region_table' = None
                           /\ regions' = None /\ metadata' = None /\ bat' = None
    /\ UNCHANGED << division, files, follow_chain, build, cursor >>

Next ==
    \/ OpenFile
    \/ ReadFileHeader
    \/ ReadVhdxHeader
    \/ ReadRegion
    \/ LocateRegions
    \/ ReadMetadata
    \/ ReadBat
    \/ Finish

(***************************************************************************)
(* The files the model decodes.                                            *)
(***************************************************************************)
ChildPath == "child.vhdx"

ParentPath == "parent.vhdx"

MissingPath == "missing.vhdx"

\* a header copy; delta = 0 stores the checksum of the block, another delta
\* a checksum that differs from it
MkHeaderBlock(sig, seq, dwid, rest, delta) ==
    LET h == [ signature |-> sig, checksum |-> 0, sequence_number |-> seq,
               data_write_id |-> dwid, rest |-> rest ]
    IN  [h EXCEPT !.checksum = (crc32c(HeaderBuf(h)) + delta) % CrcModulus]

HeaderBlocks ==
    { MkHeaderBlock(sig, seq, OtherUuid, 0, delta) :
        sig \in {VHD_HEADER_SIG, 0}, seq \in 0..MaxSeq, delta \in {0, 1} }

MkHeaders(h1, h2) == (FIRST_HEADER_OFFSET :> h1) @@ (SECOND_HEADER_OFFSET :> h2)

GoodHeaders(dwid) ==
    MkHeaders(MkHeaderBlock(VHD_HEADER_SIG, 1, OtherUuid, 0, 0),
              MkHeaderBlock(VHD_HEADER_SIG, 2, dwid, 1, 0))

\* raw region entries
RawRegion(id, offset, length, flags) ==
    [object_id |-> id, object_offset |-> offset, object_length |-> length, flags |-> flags]

MetadataOffset == 1 * MiB

BatOffset == 2 * MiB

RMeta == RawRegion(REGION_METADATA, MetadataOffset, MiB, 1)

RBat == RawRegion(REGION_BAT, BatOffset, MiB, 1)

RBatShort == RawRegion(REGION_BAT, BatOffset, 0, 1)

ROptional == RawRegion(OtherUuid, 3 * MiB, MiB, 0)

\* entries that break one rule of check_region_entry_valid each, and
\* entries that differ from a valid one in one field
RawRegionVariants ==
    { RMeta, RBat, RBatShort, ROptional,
      RawRegion(OtherUuid, 3 * MiB, MiB, 1),
      RawRegion(OtherUuid, 3 * MiB, MiB, 2),
      RawRegion(OtherUuid2, 3 * MiB, MiB, 0),
      RawRegion(REGION_BAT, BatOffset, MiB, 0),
      RawRegion(REGION_BAT, BatOffset, 2 * MiB, 1),
      RawRegion(REGION_BAT, 3 * MiB, MiB, 1),
      RawRegion(REGION_BAT, 0, MiB, 1),
      RawRegion(REGION_BAT, 524288, MiB, 1),
      RawRegion(REGION_BAT, BatOffset + 4096, MiB, 1),
      RawRegion(REGION_BAT, BatOffset, MiB + 512, 1),
      RawRegion(REGION_METADATA, BatOffset, MiB, 1) }

\* the explicit slots of a block: e1, e2, then the fill entry
MkSlots(e1, e2, fill) ==
    [ i \in 1..RegionSlots |-> IF i = 1 THEN e1 ELSE IF i = 2 THEN e2 ELSE fill ]

MkRegionBlock(sig, count, reserved, e1, e2, fill, tail, delta) ==
    LET b == [ signature |-> sig, checksum |-> 0, entry_count |-> count, reserved |-> reserved,
               slots |-> MkSlots(e1, e2, fill), fill |-> fill, tail |-> tail ]
    IN  [b EXCEPT !.checksum = (crc32c(RegionBuf(b)) + delta) % CrcModulus]

GoodRegionBlock == MkRegionBlock(REGION_TAB_HEADER_SIG, 2, 0, RMeta, RBat, ROptional, 0, 0)

MkRegions(r1, r2) == (FIRST_REGION_TAB_OFFSET :> r1) @@ (SECOND_REGION_TAB_OFFSET :> r2)

RegionCounts == { 0, 1, 2, 3, MAX_REGION_ENTRIES - 1, MAX_REGION_ENTRIES, MAX_REGION_ENTRIES + 1 }

\* pairs of region-directory copies: a first copy and the second copy, the
\* same block or one that differs from it in one place
RegionPairs ==
    LET firsts ==
            { MkRegionBlock(REGION_TAB_HEADER_SIG, count, 0, RMeta, RBat, ROptional, 0, 0) :
                count \in RegionCounts }
            \cup { MkRegionBlock(REGION_TAB_HEADER_SIG, 2, 0, RMeta, e2, ROptional, 0, 0) :
                     e2 \in RawRegionVariants }
            \cup { MkRegionBlock(sig, 2, 0, RMeta, RBat, fill, 0, delta) :
                     sig \in {REGION_TAB_HEADER_SIG, 0}, delta \in {0, 1},
                     fill \in {ROptional, RawRegion(OtherUuid, 3 * MiB, MiB, 1)} }
            \cup { MkRegionBlock(REGION_TAB_HEADER_SIG, 3, 0, RMeta, RBat, fill, 0, 0) :
                     fill \in RawRegionVariants }
        seconds(b) ==
            { b,
              MkRegionBlock(b.signature, b.entry_count, 1, b.slots[1], b.slots[2], b.fill, 0, 0),
              MkRegionBlock(b.signature, b.entry_count, 0, b.slots[1], b.slots[2], b.fill, 1, 0),
              MkRegionBlock(b.signature, b.entry_count, 0, b.slots[1], b.slots[2], b.fill, 0, 1),
              MkRegionBlock(0, b.entry_count, 0, b.slots[1], b.slots[2], b.fill, 0, 0),
              MkRegionBlock(b.signature, 2, 0, b.slots[1], b.slots[2], b.fill, 0, 0),
              MkRegionBlock(b.signature, 3, 0, b.slots[1], b.slots[2], b.fill, 0, 0) }
            \cup { MkRegionBlock(b.signature, b.entry_count, 0, b.slots[1], e2, b.fill, 0, 0) :
                     e2 \in RawRegionVariants }
    IN  UNION { { MkRegions(b, c) : c \in seconds(b) } : b \in firsts }

\* the UTF-16 units of the texts the files hold
Units(text) ==
    CASE text = PARENT_LOCATOR_LINKAGE1_KEY -> 14
      [] text = PARENT_LOCATOR_LINKAGE2_KEY -> 15
      [] text = PARENT_LOCATOR_RELATIVE_PATH_KEY -> 13
      [] text = PARENT_LOCATOR_VOLUME_PATH_KEY -> 11
      [] text = PARENT_LOCATOR_ABSOLUTE_PATH_KEY -> 19
      [] text = "not-a-uuid" -> 10
      [] text = "" -> 0
      [] text = InvalidUtf16 -> 1
      [] text = "Relative_Path" -> 13
      [] text = "relative_path\\0" -> 14
      [] text = "a\\0b" -> 3
      [] text = "other_key" -> 9
      [] text \in {ChildPath, MissingPath} -> 10
      [] text = ParentPath -> 11
      [] OTHER -> 36

\* a parent locator payload holding the pairs kv (a sequence of << key, value >>):
\* descriptor i points at a key at 256 * i and a value at 256 * i + 128 from
\* the start of the locator
MkLocator(type_id, kv) ==
    [ ZeroValue("ParentLocator") EXCEPT
        !.locator_type_id = type_id,
        !.key_value_count = Len(kv),
        !.entries = [ i \in 1..Len(kv) |->
                        [ key_offset |-> 256 * i, value_offset |-> 256 * i + 128,
                          key_length |-> 2 * Units(kv[i][1]),
                          value_length |-> 2 * Units(kv[i][2]) ] ],
        !.strings = [ j \in 1..(2 * Len(kv)) |->
                        LET i == (j + 1) \div 2
                        IN  IF j % 2 = 1
                            THEN [ offset |-> 256 * i, units |-> Units(kv[i][1]),
                                   text |-> kv[i][1] ]
                            ELSE [ offset |-> 256 * i + 128, units |-> Units(kv[i][2]),
                                   text |-> kv[i][2] ] ] ]

RawMetadata(id, offset, length, flags) ==
    [object_id |-> id, object_offset |-> offset, object_length |-> length, flags |-> flags]

\* A metadata area.  p gives block_size and virtual_disk_size in MiB, the
\* FileParameters flags, the logical sector size, whether the directory has a
\* FileParameters entry, and the parent locator payload (None for no entry).
MkMetadataArea(p) ==
    LET fixed == << RawMetadata(METADATA_VIRTUAL_DISK_SIZE, 65544, 8, 6),
                    RawMetadata(METADATA_VIRTUAL_DISK_ID, 65552, 16, 6),
                    RawMetadata(METADATA_LOGICAL_SECTOR_SIZE, 65568, 4, 6),
                    RawMetadata(METADATA_PHYSICAL_SECTOR_SIZE, 65572, 4, 6) >>
        fp    == IF p.has_file_parameters
                 THEN << RawMetadata(METADATA_FILE_PARAMETERS, 65536, 8, 4) >> ELSE << >>
        pl    == IF IsSome(p.locator)
                 THEN << RawMetadata(METADATA_PARENT_LOCATOR, 65576, 2048, 4) >> ELSE << >>
        slots == fp \o fixed \o pl
        values ==
            (65536 :> [ZeroValue("FileParameters") EXCEPT !.block_size = p.block_size,
                                                          !.flags = p.flags])
            @@ (65544 :> [ZeroValue("VirtualDiskSize") EXCEPT !.size = p.virtual_disk_size])
            @@ (65552 :> [ZeroValue("VirtualDiskId") EXCEPT !.id = OtherUuid2])
            @@ (65568 :> [ZeroValue("LogicalSectorSize") EXCEPT !.word = p.logical_sector_size])
            @@ (65572 :> [ZeroValue("PhysicalSectorSize") EXCEPT !.word = 4096])
            @@ (IF IsSome(p.locator) THEN (65576 :> p.locator.val) ELSE << >>)
    IN  [ kind |-> "metadata", signature |-> METADATA_HEADER_SIG, entry_count |-> Len(slots),
          slots |-> slots, values |-> values ]

MkBatArea(default, exc) == [kind |-> "bat", default |-> default, exc |-> exc]

MkFile(headers, regions_, metadata_area, bat_area) ==
    [ file_signature |-> FILE_HEADER_SIG,
      creator        |-> "creator",
      header         |-> headers,
      region         |-> regions_,
      areas          |-> (MetadataOffset :> metadata_area) @@ (BatOffset :> bat_area) ]

(***************************************************************************)
(* The initial states: a file system of a child file and a parent file,    *)
(* the arguments and the build.                                            *)
(***************************************************************************)
GoodLocator(type_id, linkage, path) ==
    MkLocator(type_id, << << PARENT_LOCATOR_LINKAGE1_KEY, linkage >>,
                          << PARENT_LOCATOR_RELATIVE_PATH_KEY, path >> >>)

Shape(bs, lss, vds, has_fp, flags, locator) ==
    [ block_size |-> bs, logical_sector_size |-> lss, virtual_disk_size |-> vds,
      has_file_parameters |-> has_fp, flags |-> flags, locator |-> locator ]

\* the parent locators of the files: none, one of the VHDX type, one of
\* another type
Locators(path) ==
    { None,
      Some(GoodLocator(METADATA_PARENT_LOCATOR_VHDX, OtherUuid, path)),
      Some(GoodLocator(OtherUuid, OtherUuid, path)) }

DiskSizes == { 0, 1, 5, MaxDiskMiB - 1, MaxDiskMiB }

\* small disks: a chunk ratio of 4, 2 or 0, or no FileParameters entry
SmallShapes(path) ==
    { Shape(bs, 1, vds, TRUE, IF IsSome(loc) THEN 2 ELSE 0, loc) :
        bs \in {2, 4, 16}, vds \in DiskSizes, loc \in Locators(path) }
    \cup { Shape(4, 1, vds, FALSE, 0, loc) : vds \in {0, 5}, loc \in Locators(path) }

\* the disk of the worked example: 2 MiB blocks, 512-byte sectors, 10 GiB
ExampleShapes(path) ==
    { Shape(2, 512, 10240, TRUE, IF IsSome(loc) THEN 2 ELSE 0, loc) : loc \in Locators(path) }

\* BAT contents of the small disks: all zero, all fully present, or all zero
\* but for one word
SmallBats ==
    { MkBatArea(0, << >>), MkBatArea(6, << >>) }
    \cup { MkBatArea(0, (i :> w)) : i \in 0..MaxBatIndex, w \in {4, 5} }
    \cup { MkBatArea(0, (i :> w)) : i \in {2, 3, 5, 6}, w \in {1, 6 + 3 * MiB} }

ExampleBats ==
    { MkBatArea(0, << >>),
      MkBatArea(0, (2048 :> 6) @@ (4097 :> 6 + 3 * MiB)),
      MkBatArea(0, (2048 :> 1)),
      MkBatArea(0, (2049 :> 1)) }

GoodRegions == MkRegions(GoodRegionBlock, GoodRegionBlock)

GoodShape == Shape(4, 1, 5, TRUE, 0, None)

GoodFile ==
    MkFile(GoodHeaders(OtherUuid), GoodRegions, MkMetadataArea(GoodShape), MkBatArea(0, << >>))

\* files that differ from GoodFile in the header copies
HeaderFiles == { [GoodFile EXCEPT !.header = MkHeaders(h1, h2)] : h1, h2 \in HeaderBlocks }

\* ... in the region-directory copies
RegionFiles == { [GoodFile EXCEPT !.region = r] : r \in RegionPairs }

\* ... in the file signature, or in the metadata area
OtherFiles ==
    { [GoodFile EXCEPT !.file_signature = "conectix"],
      [GoodFile EXCEPT !.areas[MetadataOffset].signature = "atadatem"],
      [GoodFile EXCEPT !.areas[MetadataOffset] = MkMetadataArea(Shape(4, 1, 5, TRUE, 2, None))],
      [GoodFile EXCEPT !.areas[MetadataOffset] =
          MkMetadataArea(Shape(4, 1, 5, TRUE, 2,
              Some(MkLocator(METADATA_PARENT_LOCATOR_VHDX,
                             << << "other_key", ParentPath >> >>))))],
      [GoodFile EXCEPT !.areas[MetadataOffset] =
          MkMetadataArea(Shape(4, 1, 5, TRUE, 2,
              Some(MkLocator(METADATA_PARENT_LOCATOR_VHDX,
                             << << PARENT_LOCATOR_LINKAGE1_KEY, "not-a-uuid" >> >>))))] }

\* BAT contents of the files decoded first: the words of the payload entries
\* alone matter there
FirstBats ==
    { MkBatArea(0, << >>), MkBatArea(6, << >>), MkBatArea(0, (0 :> 4)), MkBatArea(0, (2 :> 5)),
      MkBatArea(0, (3 :> 1)), MkBatArea(0, (1 :> 6 + 3 * MiB)) }

ShortBatRegions ==
    LET r == MkRegionBlock(REGION_TAB_HEADER_SIG, 2, 0, RMeta, RBatShort, ROptional, 0, 0)
    IN  MkRegions(r, r)

\* files that differ from GoodFile in the metadata values and the BAT; dwid
\* is the data write id of the current header, path the parent they name
DiskFiles(dwid, path, bats) ==
    { MkFile(GoodHeaders(dwid), GoodRegions, MkMetadataArea(sh), b) :
        sh \in SmallShapes(path), b \in bats }
    \cup { MkFile(GoodHeaders(dwid), ShortBatRegions, MkMetadataArea(sh), MkBatArea(0, << >>)) :
             sh \in SmallShapes(path) }

\* the disk of the worked example
ExampleFiles(path) ==
    { MkFile(GoodHeaders(OtherUuid), GoodRegions, MkMetadataArea(sh), b) :
        sh \in ExampleShapes(path), b \in ExampleBats }

\* An empty disk with a parent locator, decoded as a parent by a build
\* without overflow checks, is given a BAT of about 2^64 entries: the loop
\* then runs until the bounds check stops it.
EmptyWithLocator(file) ==
    /\ \E i \in 1..Len(file.areas[MetadataOffset].slots) :
          file.areas[MetadataOffset].slots[i].object_id = METADATA_PARENT_LOCATOR
    /\ file.areas[MetadataOffset].values[65544].size = 0

\* a child that names its parent by a locator of the VHDX type
ChildFile(path) ==
    MkFile(GoodHeaders(OtherUuid), GoodRegions,
           MkMetadataArea(Shape(4, 1, 5, TRUE, 2,
               Some(GoodLocator(METADATA_PARENT_LOCATOR_VHDX, OtherUuid, path)))),
           MkBatArea(0, << >>))

FileSystem(child, parent) == (ChildPath :> child) @@ (ParentPath :> parent)

HasLocator(file) ==
    \E i \in 1..Len(file.areas[MetadataOffset].slots) :
        file.areas[MetadataOffset].slots[i].object_id = METADATA_PARENT_LOCATOR

Builds == {"debug", "release"}

\* the parents decoded by a release build: all that a debug build decodes,
\* but of the empty disks with a locator only those with an all-zero BAT
ReleaseParents ==
    { p \in DiskFiles(OtherUuid, MissingPath, SmallBats) :
        EmptyWithLocator(p) =>
            /\ p.areas[BatOffset] = MkBatArea(0, << >>)
            /\ p.areas[MetadataOffset].values[65536].block_size = 4 }

\* a metadata area with one more directory entry, put first or last, and
\* counted by entry_count or left beyond it
WithSlot(area, slot, first, counted) ==
    [ area EXCEPT !.slots = IF first THEN << slot >> \o @ ELSE Append(@, slot),
                  !.entry_count = IF counted THEN @ + 1 ELSE @ ]

\* directory entries with an object id that is none of the six well-known
\* ids, under every combination of the three flag bits
UnknownSlots ==
    { RawMetadata(id, 131072, 8, flags) : id \in {OtherUuid, REGION_BAT}, flags \in 0..7 }

\* metadata areas the value phase accepts, rejects for has_parent without a
\* locator, or rejects for a locator key
BaseAreas ==
    { MkMetadataArea(GoodShape),
      MkMetadataArea(Shape(4, 1, 5, TRUE, 2, None)),
      MkMetadataArea(Shape(4, 1, 5, TRUE, 2,
          Some(MkLocator(METADATA_PARENT_LOCATOR_VHDX, << << "other_key", ParentPath >> >>)))) }

\* files that differ from GoodFile in the metadata directory
DirectoryFiles ==
    { [GoodFile EXCEPT !.areas[MetadataOffset] = WithSlot(a, slot, first, TRUE)] :
        a \in BaseAreas, slot \in UnknownSlots, first \in BOOLEAN }
    \cup { [GoodFile EXCEPT !.areas[MetadataOffset] = WithSlot(a, slot, FALSE, FALSE)] :
             a \in BaseAreas, slot \in UnknownSlots }

\* the key/value pairs of the parent locators: each key with values that
\* are and are not UUID text, keys the code does not know, strings with an
\* embedded NUL and strings that are no UTF-16 text
LocatorPairs ==
    { << << k, v >> >> :
        k \in { PARENT_LOCATOR_LINKAGE1_KEY, PARENT_LOCATOR_LINKAGE2_KEY,
                PARENT_LOCATOR_RELATIVE_PATH_KEY, PARENT_LOCATOR_VOLUME_PATH_KEY,
                PARENT_LOCATOR_ABSOLUTE_PATH_KEY, "other_key", "Relative_Path", "",
                "relative_path\\0", InvalidUtf16 },
        v \in { OtherUuid, NilUuid, "not-a-uuid", "", ParentPath, "a\\0b", InvalidUtf16 } }
    \cup { << << PARENT_LOCATOR_LINKAGE1_KEY, v1 >>, << k2, v2 >> >> :
             v1 \in { OtherUuid, "not-a-uuid" },
             k2 \in { PARENT_LOCATOR_LINKAGE1_KEY, PARENT_LOCATOR_LINKAGE2_KEY,
                      PARENT_LOCATOR_RELATIVE_PATH_KEY, "other_key" },
             v2 \in { OtherUuid2, "not-a-uuid", ParentPath } }
    \cup { << << PARENT_LOCATOR_RELATIVE_PATH_KEY, ParentPath >>, << k2, v2 >> >> :
             k2 \in { PARENT_LOCATOR_LINKAGE2_KEY, PARENT_LOCATOR_RELATIVE_PATH_KEY,
                      PARENT_LOCATOR_VOLUME_PATH_KEY, PARENT_LOCATOR_ABSOLUTE_PATH_KEY,
                      "other_key" },
             v2 \in { OtherUuid2, "not-a-uuid", MissingPath } }

\* files that differ from GoodFile in the parent locator
LocatorFiles ==
    { [GoodFile EXCEPT !.areas[MetadataOffset] =
          MkMetadataArea(Shape(4, 1, 5, TRUE, 2, Some(MkLocator(type_id, kv))))] :
        type_id \in {METADATA_PARENT_LOCATOR_VHDX, OtherUuid}, kv \in LocatorPairs }

\* disks of 1 MiB blocks whose BAT, of 8-byte words, lies well inside the
\* 1 MiB BAT region: the last index n they decode has n * BAT_ENTRY_LEN equal
\* to the region length, or is the first index beyond that
LargeShapes ==
    { Shape(1, 1, (MiB \div BAT_ENTRY_LEN) + k, TRUE, 0, None) : k \in {1, 2} }

LargeFiles ==
    { MkFile(GoodHeaders(OtherUuid), GoodRegions, MkMetadataArea(sh), MkBatArea(0, << >>)) :
        sh \in LargeShapes }

\* parents whose BAT holds sector entries: a small disk of 8 blocks with a
\* chunk ratio of 2, and the disk of the worked example with every word, or
\* the words around the first two sector entries, set
SectorShapes == { Shape(4, 1, 4 * MaxDiskMiB, TRUE, 0, None) }

SectorBats ==
    { MkBatArea(6, << >>),
      MkBatArea(0, (2049 :> 6 + 3 * MiB) @@ (2050 :> 7) @@ (4098 :> 6) @@ (4099 :> 6 + 5 * MiB)) }

SectorFiles ==
    { MkFile(GoodHeaders(OtherUuid), GoodRegions, MkMetadataArea(sh), b) :
        sh \in SectorShapes, b \in SmallBats }
    \cup { MkFile(GoodHeaders(OtherUuid), GoodRegions, MkMetadataArea(sh), b) :
              sh \in { x \in ExampleShapes(MissingPath) : x.locator = None }, b \in SectorBats }

\* an offset from the start of the metadata region that lies behind the
\* metadata, the BAT and the optional region
StrayOffset == 4 * MiB

\* a metadata area with the payload of directory entry i (from 1) moved to
\* StrayOffset
WithStray(area, i) ==
    LET old == area.slots[i].object_offset
    IN  [ area EXCEPT !.slots[i].object_offset = StrayOffset,
                      !.values = (StrayOffset :> area.values[old])
                                 @@ [ o \in (DOMAIN area.values) \ {old} |-> area.values[o] ] ]

\* files with one payload of the metadata outside the metadata region
StrayFiles ==
    { [GoodFile EXCEPT !.areas[MetadataOffset] = WithStray(MkMetadataArea(GoodShape), i)] :
        i \in 1..Len(MkMetadataArea(GoodShape).slots) }

\* a region directory whose Metadata entry declares a length of 0
EmptyMetadataRegions ==
    LET r == MkRegionBlock(REGION_TAB_HEADER_SIG, 2, 0,
                           RawRegion(REGION_METADATA, MetadataOffset, 0, 1), RBat, ROptional, 0, 0)
    IN  MkRegions(r, r)

\* a metadata area cut to the first count entries of its directory
Truncated(area, count) ==
    [ area EXCEPT !.entry_count = count, !.slots = SubSeq(@, 1, count) ]

\* files whose metadata region has the declared length 0 and whose metadata
\* directory holds no entry, one, or two
EmptyMetadataFiles ==
    { MkFile(GoodHeaders(OtherUuid), EmptyMetadataRegions,
             Truncated(MkMetadataArea(GoodShape), count), MkBatArea(0, << >>)) :
        count \in 0..2 }

\* [fs, follow, build]: the file systems, the --follow argument and the build
Scenarios ==
    { [fs |-> FileSystem(c, GoodFile), follow |-> FALSE, build |-> "release"] :
        c \in HeaderFiles \cup RegionFiles \cup OtherFiles }
    \cup UNION { { [fs |-> FileSystem(c, GoodFile), follow |-> f, build |-> b] :
                     f \in (IF HasLocator(c) THEN BOOLEAN ELSE {FALSE}), b \in Builds } :
                   c \in DiskFiles(OtherUuid, ParentPath, FirstBats) }
    \cup { [fs |-> FileSystem(c, GoodFile), follow |-> FALSE, build |-> "release"] :
             c \in { f \in ExampleFiles(ParentPath) : f.areas[BatOffset] = MkBatArea(0, << >>) } }
    \cup { [fs |-> FileSystem(ChildFile(ParentPath), p), follow |-> TRUE, build |-> "debug"] :
             p \in DiskFiles(OtherUuid, MissingPath, SmallBats) \cup ExampleFiles(MissingPath)
                   \cup SectorFiles }
    \cup { [fs |-> FileSystem(ChildFile(ParentPath), p), follow |-> TRUE, build |-> "release"] :
             p \in ReleaseParents }
    \cup { [fs |-> FileSystem(ChildFile(ParentPath), p), follow |-> TRUE, build |-> "debug"] :
             p \in HeaderFiles \cup OtherFiles
                   \cup { MkFile(GoodHeaders(OtherUuid2), GoodRegions, MkMetadataArea(GoodShape),
                                 MkBatArea(0, << >>)) } }
    \cup { [fs |-> FileSystem(ChildFile(path), GoodFile), follow |-> TRUE, build |-> "debug"] :
             path \in {MissingPath, ChildPath} }
    \cup { [fs |-> FileSystem(c, GoodFile), follow |-> FALSE, build |-> "release"] :
             c \in LargeFiles }
    \cup { [fs |-> FileSystem(c, GoodFile), follow |-> FALSE, build |-> "debug"] :
             c \in DirectoryFiles \cup LocatorFiles \cup StrayFiles \cup EmptyMetadataFiles }

Init ==
    /\ \E sc \in Scenarios : files = sc.fs /\ follow_chain = sc.follow /\ build = sc.build
    /\ file_path = ChildPath
    /\ parent_locator = None
    /\ disk_type = "Fixed"
    /\ pc = "open"
    /\ pass = 1
    /\ header = None
    /\ vhdx_header = None
    /\ region_table = None
    /\ regions = None
    /\ metadata = None
    /\ bat = None
    /\ exit = "running"
    /\ cursor = 0
    /\ division = None
    /\ log = << >>

Spec == Init /\ [][Next]_vars

(***************************************************************************)
(* The divisions of maths.rs on their own: the two functions of both       *)
(* implementations applied to every pair of operands within the bounds.    *)
(***************************************************************************)
\* the operands of each implementation
Operands ==
    { [t |-> "u64", n |-> n, d |-> d] : n \in 0..MaxDividend, d \in 0..MaxDivisor }
    \cup { [t |-> "i64", n |-> n, d |-> d] :
               n \in (0 - MaxDividend)..MaxDividend, d \in (0 - MaxDivisor)..MaxDivisor }

MathInit ==
    /\ \E op \in Operands :
           division = [t |-> op.t, n |-> op.n, d |-> op.d, ceiling |-> None, floor |-> None]
    /\ files = << >>
    /\ follow_chain = FALSE
    /\ build = "debug"
    /\ file_path = ""
    /\ parent_locator = None
    /\ disk_type = "Fixed"
    /\ pc = "maths"
    /\ pass = 0
    /\ header = None
    /\ vhdx_header = None
    /\ region_table = None
    /\ regions = None
    /\ metadata = None
    /\ bat = None
    /\ exit = "running"
    /\ cursor = 0
    /\ log = << >>

\* T::ceiling_divide(n, d)
CeilingDivide ==
    /\ pc = "maths"
    /\ division.ceiling = None
    /\ division' = [division EXCEPT
                       !.ceiling = Some(ceiling_divide(division.t, division.n, division.d))]
    /\ UNCHANGED << files, follow_chain, build, file_path, parent_locator, disk_type, pc, pass,
                    header, vhdx_header, region_table, regions, metadata, bat, exit, cursor,
                    log >>

\* T::floor_divide(n, d)
FloorDivide ==
    /\ pc = "maths"
    /\ division.floor = None
    /\ division' = [division EXCEPT
                       !.floor = Some(floor_divide(division.t, division.n, division.d))]
    /\ UNCHANGED << files, follow_chain, build, file_path, parent_locator, disk_type, pc, pass,
                    header, vhdx_header, region_table, regions, metadata, bat, exit, cursor,
                    log >>

MathNext ==
    \/ CeilingDivide
    \/ FloorDivide

MathSpec == MathInit /\ [][MathNext]_vars


(***************************************************************************)
(* Properties of the decode, stated on the reachable states.               *)
(***************************************************************************)
\* the file the current pass decodes
CurrentFile == files[file_path]

\* a header copy with the fixed signature whose stored checksum is the
\* checksum of its block with bytes 4..8 zeroed
HeaderCopyValid(h) ==
    /\ h.signature = VHD_HEADER_SIG
    /\ h.checksum = crc32c([HeaderBuf(h) EXCEPT ![2] = 0])

\* C1: when both header copies pass the signature and the checksum check,
\* read_vhdx_header returns the copy with the strictly larger sequence number
\* together with that copy's own offset, and fails when the two sequence
\* numbers are equal.
C1_LargerSequenceNumberWins ==
    vhdx_header.tag # "None" =>
        LET h1 == CurrentFile.header[FIRST_HEADER_OFFSET]
            h2 == CurrentFile.header[SECOND_HEADER_OFFSET]
        IN  (HeaderCopyValid(h1) /\ HeaderCopyValid(h2)) =>
                /\ h1.sequence_number > h2.sequence_number =>
                       vhdx_header = Ok(<< FIRST_HEADER_OFFSET, VhdHeader(h1) >>)
                /\ h2.sequence_number > h1.sequence_number =>
                       vhdx_header = Ok(<< SECOND_HEADER_OFFSET, VhdHeader(h2) >>)
                /\ h1.sequence_number = h2.sequence_number => vhdx_header.tag = "Err"

\* both copies valid, the first one newer, and the first one returned
C1_FirstCopyReturned ==
    /\ vhdx_header.tag = "Ok"
    /\ vhdx_header.val[1] = FIRST_HEADER_OFFSET
    /\ HeaderCopyValid(CurrentFile.header[FIRST_HEADER_OFFSET])
    /\ HeaderCopyValid(CurrentFile.header[SECOND_HEADER_OFFSET])
    /\ CurrentFile.header[FIRST_HEADER_OFFSET].sequence_number
           > CurrentFile.header[SECOND_HEADER_OFFSET].sequence_number

\* C2: read_vhdx_header fails whenever either header copy has a wrong
\* signature or a stored checksum that differs from the recomputed one, even
\* if the other copy is valid and newer; no header is returned and main ends.
C2_EitherCopyInvalidFails ==
    vhdx_header.tag # "None" =>
        LET h1 == CurrentFile.header[FIRST_HEADER_OFFSET]
            h2 == CurrentFile.header[SECOND_HEADER_OFFSET]
        IN  (~HeaderCopyValid(h1) \/ ~HeaderCopyValid(h2)) =>
                /\ vhdx_header.tag = "Err"
                /\ exit = "err"
                /\ pc = "end"

\* the first copy has the signature but a wrong checksum, the second copy is
\* valid and newer, and the read has failed
C2_ValidNewerCopyNotUsed ==
    /\ vhdx_header.tag = "Err"
    /\ CurrentFile.header[FIRST_HEADER_OFFSET].signature = VHD_HEADER_SIG
    /\ ~HeaderCopyValid(CurrentFile.header[FIRST_HEADER_OFFSET])
    /\ HeaderCopyValid(CurrentFile.header[SECOND_HEADER_OFFSET])
    /\ CurrentFile.header[SECOND_HEADER_OFFSET].sequence_number
           > CurrentFile.header[FIRST_HEADER_OFFSET].sequence_number

\* C3 as stated: when both region-directory copies validate, read_region
\* fails if their entry lists differ and succeeds with the common list when
\* the entry lists are equal entry for entry.
C3_EqualEntryListsSucceed ==
    region_table.tag # "None" =>
        LET region1 == read_specific_region(CurrentFile, FIRST_REGION_TAB_OFFSET)
            region2 == read_specific_region(CurrentFile, SECOND_REGION_TAB_OFFSET)
        IN  (IsOk(region1) /\ IsOk(region2)) =>
                IF region1.val.entries = region2.val.entries
                THEN IsOk(region_table) /\ region_table.val.entries = region1.val.entries
                ELSE region_table.tag = "Err"

\* C3 amended: when both region-directory copies validate, read_region
\* succeeds, returning the first copy's table, exactly when the entry lists
\* are equal entry for entry and the stored checksums of the two copies are
\* equal; otherwise it fails.
C3_EqualTablesSucceed ==
    region_table.tag # "None" =>
        LET region1 == read_specific_region(CurrentFile, FIRST_REGION_TAB_OFFSET)
            region2 == read_specific_region(CurrentFile, SECOND_REGION_TAB_OFFSET)
        IN  (IsOk(region1) /\ IsOk(region2)) =>
                IF /\ region1.val.entries = region2.val.entries
                   /\ CurrentFile.region[FIRST_REGION_TAB_OFFSET].checksum
                          = CurrentFile.region[SECOND_REGION_TAB_OFFSET].checksum
                THEN region_table = Ok(region1.val)
                ELSE region_table.tag = "Err"

\* both copies validate and hold equal entry lists, their stored checksums
\* differ, and read_region has failed
C3_EqualEntriesRejected ==
    /\ region_table.tag = "Err"
    /\ IsOk(read_specific_region(CurrentFile, FIRST_REGION_TAB_OFFSET))
    /\ IsOk(read_specific_region(CurrentFile, SECOND_REGION_TAB_OFFSET))
    /\ read_specific_region(CurrentFile, FIRST_REGION_TAB_OFFSET).val.entries
           = read_specific_region(CurrentFile, SECOND_REGION_TAB_OFFSET).val.entries
    /\ CurrentFile.region[FIRST_REGION_TAB_OFFSET].checksum
           # CurrentFile.region[SECOND_REGION_TAB_OFFSET].checksum

\* a region-directory copy with the fixed signature whose stored checksum is
\* the checksum of its block with bytes 4..8 zeroed
RegionCopySealed(b) ==
    /\ b.signature = REGION_TAB_HEADER_SIG
    /\ b.checksum = crc32c([RegionBuf(b) EXCEPT ![2] = 0])

\* C4 as stated: a region-directory copy with a valid signature and checksum
\* passes the header check for every entry count from 0 up to and including
\* 2047 and is rejected for every entry count above 2047.
C4_CountUpToMaximumAccepted ==
    region_table.tag # "None" =>
        \A offset \in {FIRST_REGION_TAB_OFFSET, SECOND_REGION_TAB_OFFSET} :
            LET b == CurrentFile.region[offset]
            IN  RegionCopySealed(b) =>
                    (IsOk(check_region_header_valid(CurrentFile, offset, b.signature,
                                                    RegionTable(b)))
                        <=> b.entry_count <= 2047)

\* a raw region entry that breaks one of the rules
RegionRuleBroken(raw) ==
    \/ raw.object_offset < MiB
    \/ raw.object_offset % MiB # 0
    \/ raw.object_length % MiB # 0
    \/ (raw.object_id \notin {REGION_BAT, REGION_METADATA} /\ raw.flags % 2 = 1)

\* the raw entries within the entry count of a copy
CopyEntries(b) ==
    { b.slots[i] : i \in { j \in 1..Len(b.slots) : j <= b.entry_count } }
        \cup (IF b.entry_count > Len(b.slots) THEN {b.fill} ELSE {})

\* C5: every entry of a region directory returned by a successful read_region
\* has an offset of at least 1 MiB that is a multiple of 1 MiB, a length that
\* is a multiple of 1 MiB, and is not both Unknown and required; a copy
\* holding an entry that breaks one of these makes read_region fail.
C5_RegionEntriesWellFormed ==
    region_table.tag # "None" =>
        /\ IsOk(region_table) =>
               \A i \in 1..Len(region_table.val.entries) :
                   LET e == region_table.val.entries[i]
                   IN  /\ e.object_offset >= MiB
                       /\ e.object_offset % MiB = 0
                       /\ e.object_length % MiB = 0
                       /\ ~(e.region_type = "Unknown" /\ e.required)
        /\ (\E offset \in {FIRST_REGION_TAB_OFFSET, SECOND_REGION_TAB_OFFSET} :
               \E raw \in CopyEntries(CurrentFile.region[offset]) : RegionRuleBroken(raw))
               => region_table.tag = "Err"

\* two sealed copies of two entries, the second with a length that is no
\* multiple of 1 MiB, and read_region has failed on that entry
C5_MisalignedLengthRejected ==
    /\ region_table.tag = "Err"
    /\ region_table.msg = "Region object size is not a multiple of the specified factor."
    /\ RegionCopySealed(CurrentFile.region[FIRST_REGION_TAB_OFFSET])
    /\ CurrentFile.region[FIRST_REGION_TAB_OFFSET].entry_count = 2
    /\ CurrentFile.region[FIRST_REGION_TAB_OFFSET].slots[2].object_length % MiB # 0

StageIndex(stage) == CHOOSE i \in 1..Len(Stages) : Stages[i] = stage

\* C6: the calls of a pass are made in the fixed order (file header, header,
\* region directory, metadata, BAT), each only after the call before it
\* returned Ok, so a BAT decode always follows a completed metadata decode of
\* the same file; a pass starts only after the pass before it completed, and
\* after the first failing call no further call is made on any file.
C6_StagesInOrder ==
    \A i \in 1..Len(log) :
        /\ i = 1 => (log[i].stage = "open" /\ log[i].pass = 1)
        /\ i > 1 =>
             /\ log[i - 1].tag = "Ok"
             /\ IF log[i].stage = "open"
                THEN /\ log[i - 1].stage = "finish"
                     /\ log[i].pass = log[i - 1].pass + 1
                ELSE /\ log[i].pass = log[i - 1].pass
                     /\ log[i].path = log[i - 1].path
                     /\ StageIndex(log[i].stage) = StageIndex(log[i - 1].stage) + 1
        /\ log[i].stage = "bat" =>
               \E j \in 1..(i - 1) :
                   /\ log[j].pass = log[i].pass
                   /\ log[j].stage = "metadata"
                   /\ log[j].tag = "Ok"
        /\ log[i].tag # "Ok" => (i = Len(log) /\ pc = "end" /\ exit \in {"err", "panic"})

\* the metadata decode of a parent file failed and main has ended
C6_ParentMetadataFailed ==
    /\ exit = "err"
    /\ Len(log) > 0
    /\ Last(log).pass = 2
    /\ Last(log).stage = "metadata"
    /\ Last(log).tag = "Err"
    /\ bat.tag = "None"

\* read_bat has just returned
AfterReadBat == bat.tag # "None" /\ Len(log) > 0 /\ Last(log).stage = "bat"

DecodedCount == Len(bat.val[1]) + Len(bat.val[2])

CeilingOf(n, d) == (n + d - 1) \div d

\* floor(2^23 * logical_sector_size / block_size), the block size in MiB
ChunkRatioOf(md) == (8 * md.logical_sector_size) \div md.file_parameters.block_size

PayloadCountOf(md) == CeilingOf(md.virtual_disk_size, md.file_parameters.block_size)

SectorCountOf(md) == CeilingOf(PayloadCountOf(md), ChunkRatioOf(md))

\* C7 as stated: the number of BAT entries read_bat decodes is selected by
\* the has-parent flag alone: payload_block_count +
\* floor((payload_block_count - 1) / chunk_ratio) when the flag is true and
\* sector_block_count * (chunk_ratio + 1) when it is false.
C7_FlagAloneSelectsCount ==
    (AfterReadBat /\ IsOk(bat)) =>
        LET md == metadata.val[2]
        IN  DecodedCount =
                IF IsSome(parent_locator)
                THEN PayloadCountOf(md) + ((PayloadCountOf(md) - 1) \div ChunkRatioOf(md))
                ELSE SectorCountOf(md) * (ChunkRatioOf(md) + 1)

\* the sector entry a word decodes to
SectorView(word) ==
    [ state |-> IF word % 8 = 6 THEN "Present" ELSE "NotPresent",
      file_offset_mb |-> word \div MiB ]

\* C8 as stated: with chunk_ratio = 2048 and 6147 entries decoded, exactly
\* the 0-based indices 2048 and 4097 decode as sector entries (so the words
\* there hold a sector state, 0 or 6) and every other index as a payload
\* entry.
C8_SectorIndices ==
    (AfterReadBat /\ IsOk(bat) /\ ChunkRatioOf(metadata.val[2]) = 2048 /\ DecodedCount = 6147) =>
        LET word(n) == BatWordAt(CurrentFile, regions.val.bat_region.object_offset, n)
        IN  /\ Len(bat.val[1]) = 6145
            /\ word(2048) % 8 \in {0, 6}
            /\ word(4097) % 8 \in {0, 6}
            /\ bat.val[2] = << SectorView(word(2048)), SectorView(word(4097)) >>

\* C9 as stated: calculate_block_values returns chunk_ratio =
\* floor(2^23 * logical_sector_size / block_size), payload_block_count =
\* ceil(virtual_disk_size / block_size) and sector_block_count =
\* ceil(payload_block_count / chunk_ratio), and returns an error exactly when
\* chunk_ratio is 0; for 2 MiB blocks, 512-byte sectors and 10 GiB the values
\* are 2048, 5120, 3 and, without a parent locator, 6147 entries.
C9_BlockValues ==
    AfterReadBat =>
        LET md == metadata.val[2]
            v  == calculate_block_values(md, build)
        IN  /\ v.tag \in {"Ok", "Err"}
            /\ md.file_parameters.block_size # 0 =>
                   /\ v.tag = "Err" <=> ChunkRatioOf(md) = 0
                   /\ IsOk(v) =>
                          /\ v.val.chunk_ratio = ChunkRatioOf(md)
                          /\ v.val.payload_blocks = PayloadCountOf(md)
                          /\ v.val.sector_blocks = SectorCountOf(md)
            /\ ( /\ md.file_parameters.block_size = 2
                 /\ md.logical_sector_size = 512
                 /\ md.virtual_disk_size = 10240 ) =>
                   /\ IsOk(v)
                   /\ v.val.chunk_ratio = 2048
                   /\ v.val.payload_blocks = 5120
                   /\ v.val.sector_blocks = 3
                   /\ ~IsSome(md.parent_locator) => v.val.total_bat_entries = 6147

\* the indices of the words of the BAT that the loop of read_bat_table
\* reaches and that hold state code 4 or 5
RejectedWords ==
    LET v      == calculate_block_values(metadata.val[2], build)
        count  == IF IsSome(parent_locator) THEN v.val.total_bat_entries
                  ELSE v.val.payload_blocks
        region == regions.val.bat_region
        a      == AreaAt(CurrentFile, region.object_offset)
    IN  IF IsOk(v) /\ a.kind = "bat"
        THEN { n \in DOMAIN a.exc :
                 /\ n < count
                 /\ n * BAT_ENTRY_LEN <= region.object_length
                 /\ a.exc[n] % 8 \in {4, 5} }
        ELSE {}

\* C10 as stated: read_bat returns an error value, and no entry sequences,
\* whenever a decoded raw entry has low 3 bits equal to 4 or 5, at a payload
\* position or at a sector position.
C10_InvalidStateIsAnError ==
    (AfterReadBat /\ RejectedWords # {}) => bat.tag = "Err"


\* two sealed copies with an entry count of 2047 and valid entries, and
\* read_region has failed on the count
C4_MaximumCountRejected ==
    /\ region_table.tag = "Err"
    /\ region_table.msg = "Region table entry count exceeds the specified maximum."
    /\ RegionCopySealed(CurrentFile.region[FIRST_REGION_TAB_OFFSET])
    /\ CurrentFile.region[FIRST_REGION_TAB_OFFSET].entry_count = 2047

\* the first file of a run (flag false), a disk of 2 MiB blocks, 512-byte
\* sectors and 10 GiB without a parent locator: 5120 entries are decoded
C7_PayloadCountDecoded ==
    /\ AfterReadBat
    /\ IsOk(bat)
    /\ ~IsSome(parent_locator)
    /\ ~IsSome(metadata.val[2].parent_locator)
    /\ ChunkRatioOf(metadata.val[2]) = 2048
    /\ PayloadCountOf(metadata.val[2]) = 5120
    /\ DecodedCount = 5120

\* 6147 entries decoded with chunk_ratio 2048 from a BAT whose word 2048
\* holds state 6 and whose words 2049 and 4098 are zero: word 2048 is
\* decoded as a payload entry, the two sector entries come from the zero words
C8_Word2048IsPayload ==
    /\ AfterReadBat
    /\ IsOk(bat)
    /\ ChunkRatioOf(metadata.val[2]) = 2048
    /\ DecodedCount = 6147
    /\ BatWordAt(CurrentFile, regions.val.bat_region.object_offset, 2048) = 6
    /\ bat.val[1][2049].state = "FullyPresent"
    /\ bat.val[2] = << SectorView(0), SectorView(0) >>

\* metadata without a FileParameters item: block_size is 0 and the division
\* panics
C9_ZeroBlockSizePanics ==
    /\ AfterReadBat
    /\ metadata.val[2].file_parameters.block_size = 0
    /\ bat = Panic("attempt to divide by zero")
    /\ exit = "panic"

\* a word with state code 4 or 5 is reached and read_bat has panicked
C10_InvalidStatePanics ==
    /\ AfterReadBat
    /\ RejectedWords # {}
    /\ bat.tag = "Panic"
    /\ exit = "panic"

\* the number of entries the loop of read_bat_table is to decode
BatEntryCount ==
    LET v == calculate_block_values(metadata.val[2], build)
    IN  IF IsSome(parent_locator) THEN v.val.total_bat_entries ELSE v.val.payload_blocks

BatBoundsError == Err("BAT table is longer than recorded in the region table.")

\* C11 as stated: BAT decoding stops with a bounds-violation error exactly
\* when it reaches an entry index n with n * 8 > BAT region length; it never
\* fails on bounds for an index with n * 8 <= region length.
C11_BoundsAtEightBytes ==
    (AfterReadBat /\ IsOk(calculate_block_values(metadata.val[2], build))
                  /\ bat.tag # "Panic") =>
        LET length == regions.val.bat_region.object_length
            first  == (length \div 8) + 1
        IN  bat = BatBoundsError <=> first < BatEntryCount

\* an all-zero BAT that ends inside its region (entry count * 8 is less than
\* the region length), decoded as the first file, and read_bat has failed on
\* the bounds check
C11_FailsInsideRegion ==
    /\ AfterReadBat
    /\ ~IsSome(parent_locator)
    /\ IsOk(calculate_block_values(metadata.val[2], build))
    /\ AreaAt(CurrentFile, regions.val.bat_region.object_offset) = MkBatArea(0, << >>)
    /\ BatEntryCount * 8 < regions.val.bat_region.object_length
    /\ bat = BatBoundsError

\* read_metadata has just returned
AfterReadMetadata == metadata.tag # "None" /\ Len(log) > 0 /\ Last(log).stage = "metadata"

\* the metadata area of the file the current pass decodes
MetadataArea == AreaAt(CurrentFile, regions.val.metadata_region.object_offset)

\* the directory phase of read_metadata on the current file
DirectoryRead ==
    read_metadata_table(CurrentFile, regions.val.metadata_region.object_offset,
                        regions.val.metadata_region.object_length)

WellKnownMetadataIds ==
    { METADATA_FILE_PARAMETERS, METADATA_VIRTUAL_DISK_SIZE, METADATA_VIRTUAL_DISK_ID,
      METADATA_LOGICAL_SECTOR_SIZE, METADATA_PHYSICAL_SECTOR_SIZE, METADATA_PARENT_LOCATOR }

\* the raw directory entries within the entry count of the area
CountedSlots(a) == { i \in 1..Len(a.slots) : i <= a.entry_count }

UnknownRequired(raw) ==
    raw.object_id \notin WellKnownMetadataIds /\ (raw.flags \div 4) % 2 = 1

\* C12: when the metadata directory holds an entry whose object id is none
\* of the six well-known ids and whose flags have bit 2 (is_required) set,
\* read_metadata fails, and the failure is the directory phase's own: the
\* value phase is never entered.
C12_UnknownRequiredFailsInDirectory ==
    (AfterReadMetadata /\ MetadataArea.kind = "metadata") =>
        ((\E i \in CountedSlots(MetadataArea) : UnknownRequired(MetadataArea.slots[i])) =>
            /\ metadata.tag = "Err"
            /\ ~IsOk(DirectoryRead)
            /\ metadata = DirectoryRead
            /\ exit = "err")

\* a directory with the right signature whose last counted entry is unknown
\* and required, all entries before it being known, and read_metadata has
\* failed
C12_LastEntryUnknownRequired ==
    /\ AfterReadMetadata
    /\ MetadataArea.kind = "metadata"
    /\ MetadataArea.signature = METADATA_HEADER_SIG
    /\ MetadataArea.entry_count = Len(MetadataArea.slots)
    /\ MetadataArea.entry_count > 1
    /\ UnknownRequired(MetadataArea.slots[MetadataArea.entry_count])
    /\ \A i \in 1..(MetadataArea.entry_count - 1) :
           MetadataArea.slots[i].object_id \in WellKnownMetadataIds
    /\ metadata.tag = "Err"
    /\ exit = "err"

\* the FileParameters payload a directory entry points at has bit 1
\* (has_parent) of its flags set
SlotHasParent(raw) ==
    /\ raw.object_id = METADATA_FILE_PARAMETERS
    /\ (ValueAt(CurrentFile, regions.val.metadata_region.object_offset, raw.object_offset,
                "FileParameters").flags \div 2) % 2 = 1

\* C13: every Metadata a successful read_metadata returns has a parent
\* locator whenever file_parameters.has_parent is true; a file whose file
\* parameters have has_parent set and whose directory has no parent-locator
\* entry makes read_metadata fail.
C13_HasParentNeedsLocator ==
    AfterReadMetadata =>
        /\ IsOk(metadata) =>
               (metadata.val[2].file_parameters.has_parent
                   => metadata.val[2].parent_locator.tag = "Some")
        /\ ( /\ MetadataArea.kind = "metadata"
             /\ \E i \in CountedSlots(MetadataArea) : SlotHasParent(MetadataArea.slots[i])
             /\ \A i \in CountedSlots(MetadataArea) :
                    MetadataArea.slots[i].object_id # METADATA_PARENT_LOCATOR )
               => metadata.tag = "Err"

\* the directory and every value were read, has_parent is set, the directory
\* has no parent-locator entry, and read_metadata has failed on the final
\* cross-check
C13_HasParentWithoutLocator ==
    /\ AfterReadMetadata
    /\ IsOk(DirectoryRead)
    /\ \E i \in CountedSlots(MetadataArea) : SlotHasParent(MetadataArea.slots[i])
    /\ \A i \in CountedSlots(MetadataArea) :
           MetadataArea.slots[i].object_id # METADATA_PARENT_LOCATOR
    /\ metadata = Err("File parameter 'HasParent' is set and the file does not contain a parent locator.")
    /\ exit = "err"

\* the directory has a parent-locator entry within its entry count
HasLocatorSlot ==
    /\ MetadataArea.kind = "metadata"
    /\ \E i \in CountedSlots(MetadataArea) :
           MetadataArea.slots[i].object_id = METADATA_PARENT_LOCATOR

\* the parent-locator payload the directory points at
RawLocator ==
    LET i == CHOOSE j \in CountedSlots(MetadataArea) :
                 MetadataArea.slots[j].object_id = METADATA_PARENT_LOCATOR
    IN  ValueAt(CurrentFile, regions.val.metadata_region.object_offset,
                MetadataArea.slots[i].object_offset, "ParentLocator")

\* the indices of its key/value descriptors and the pair each one decodes to
RawPairIndices == 0..(RawLocator.key_value_count - 1)

RawPair(n) == ParentLocatorEntry(RawLocator, n, 0, 0)

\* some key or value of the locator is no UTF-16 text
UndecodablePair ==
    \E n \in RawPairIndices : RawPair(n).key = InvalidUtf16 \/ RawPair(n).value = InvalidUtf16

\* the value of the last pair with the given key
LastValueOf(key) ==
    RawPair(CHOOSE n \in RawPairIndices :
                /\ RawPair(n).key = key
                /\ \A m \in RawPairIndices : RawPair(m).key = key => m <= n).value

\* C14: when a parent-locator entry has key parent_linkage or parent_linkage2
\* and a value that is no valid UUID text, read_metadata does not succeed (it
\* returns an error, unless a string of the locator cannot be decoded at all,
\* which aborts the program); a successful read_metadata has stored, for each
\* linkage key present, the parsed value of that key and not the default
\* all-zero UUID.
C14_BadLinkageFails ==
    (AfterReadMetadata /\ HasLocatorSlot) =>
        /\ (\E n \in RawPairIndices :
                /\ RawPair(n).key \in {PARENT_LOCATOR_LINKAGE1_KEY, PARENT_LOCATOR_LINKAGE2_KEY}
                /\ RawPair(n).value # InvalidUtf16
                /\ ~ParsesAsUuid(RawPair(n).value))
               => /\ metadata.tag \in {"Err", "Panic"}
                  /\ metadata.tag = "Panic" => UndecodablePair
        /\ IsOk(metadata) =>
               /\ (\E n \in RawPairIndices : RawPair(n).key = PARENT_LOCATOR_LINKAGE1_KEY)
                      => /\ ParsesAsUuid(LastValueOf(PARENT_LOCATOR_LINKAGE1_KEY))
                         /\ metadata.val[2].parent_locator.val.parent_linkage
                                = LastValueOf(PARENT_LOCATOR_LINKAGE1_KEY)
               /\ (\E n \in RawPairIndices : RawPair(n).key = PARENT_LOCATOR_LINKAGE2_KEY)
                      => /\ ParsesAsUuid(LastValueOf(PARENT_LOCATOR_LINKAGE2_KEY))
                         /\ metadata.val[2].parent_locator.val.parent_linkage2
                                = LastValueOf(PARENT_LOCATOR_LINKAGE2_KEY)

\* a locator whose first pair is a valid parent_linkage and whose second
\* pair is parent_linkage2 with the value "not-a-uuid", and read_metadata
\* has returned the parse error
C14_SecondLinkageNotUuid ==
    /\ AfterReadMetadata
    /\ HasLocatorSlot
    /\ RawLocator.key_value_count = 2
    /\ RawPair(0).key = PARENT_LOCATOR_LINKAGE1_KEY
    /\ ParsesAsUuid(RawPair(0).value)
    /\ RawPair(1).key = PARENT_LOCATOR_LINKAGE2_KEY
    /\ RawPair(1).value = "not-a-uuid"
    /\ metadata = Err("invalid UUID text")
    /\ exit = "err"

RecognisedKeys ==
    { PARENT_LOCATOR_LINKAGE1_KEY, PARENT_LOCATOR_LINKAGE2_KEY, PARENT_LOCATOR_RELATIVE_PATH_KEY,
      PARENT_LOCATOR_VOLUME_PATH_KEY, PARENT_LOCATOR_ABSOLUTE_PATH_KEY }

HasKey(key) == \E n \in RawPairIndices : RawPair(n).key = key

\* C15: read_metadata does not succeed when a parent-locator entry has a key
\* other than parent_linkage, parent_linkage2, relative_path, volume_path and
\* absolute_win32_path (it returns an error, unless a string of the locator
\* cannot be decoded at all, which aborts the program); after a successful
\* read_metadata the fields relative_path, volume_path and
\* absolute_win32_path hold the decoded value of their key, unchanged.
C15_OtherKeyFails ==
    (AfterReadMetadata /\ HasLocatorSlot) =>
        /\ (\E n \in RawPairIndices : RawPair(n).key \notin RecognisedKeys)
               => /\ metadata.tag \in {"Err", "Panic"}
                  /\ metadata.tag = "Panic" => UndecodablePair
        /\ IsOk(metadata) =>
               LET locator == metadata.val[2].parent_locator.val
               IN  /\ HasKey(PARENT_LOCATOR_RELATIVE_PATH_KEY) =>
                          locator.relative_path = LastValueOf(PARENT_LOCATOR_RELATIVE_PATH_KEY)
                   /\ HasKey(PARENT_LOCATOR_VOLUME_PATH_KEY) =>
                          locator.volume_path = LastValueOf(PARENT_LOCATOR_VOLUME_PATH_KEY)
                   /\ HasKey(PARENT_LOCATOR_ABSOLUTE_PATH_KEY) =>
                          locator.absolute_win32_path
                              = LastValueOf(PARENT_LOCATOR_ABSOLUTE_PATH_KEY)

\* a locator whose first pair is a relative_path and whose second pair has
\* the key "other_key", and read_metadata has returned the error of the
\* last match arm
C15_UnknownKeyRejected ==
    /\ AfterReadMetadata
    /\ HasLocatorSlot
    /\ RawLocator.key_value_count = 2
    /\ RawPair(0).key = PARENT_LOCATOR_RELATIVE_PATH_KEY
    /\ RawPair(1).key = "other_key"
    /\ metadata = Err("Unknown parent locator key.")
    /\ exit = "err"

\* cursor positions a decode operation can be entered with: that of a newly
\* opened file, the start of the metadata, and the present position (where
\* the call that has just returned left the cursor)
CursorSamples == { 0, MetadataOffset, cursor }

\* the call of a stage has just returned
AfterCall(stage) == Len(log) > 0 /\ Last(log).stage = stage

\* C16: the result of each of read_vhdx_header, read_region, read_metadata
\* and read_bat is the same for every cursor position the file handle has
\* when the operation is called: what main obtained, entering each call with
\* the cursor where the call before left it, is what the operation returns
\* when entered at any other position, as it would be in another order.
C16_CursorIndependent ==
    /\ AfterCall("vhdx_header") =>
           \A p \in CursorSamples : vhdx_header = read_vhdx_header(Handle(CurrentFile, p))
    /\ AfterCall("region") =>
           \A p \in CursorSamples : region_table = read_region(Handle(CurrentFile, p))
    /\ AfterCall("metadata") =>
           \A p \in CursorSamples :
               metadata = read_metadata(Handle(CurrentFile, p), regions.val.metadata_region)
    /\ AfterReadBat =>
           \A p \in CursorSamples :
               bat = read_bat(Handle(CurrentFile, p), regions.val.bat_region, metadata.val[2],
                              IsSome(parent_locator), build)

\* read_bat was entered with the cursor where read_metadata left it, inside
\* the metadata region, and has decoded a BAT that holds a word other than
\* zero; entered with the cursor at the start of the file it returns the same
C16_BatEnteredElsewhere ==
    /\ AfterReadBat
    /\ IsOk(bat)
    /\ Last(log).at # regions.val.bat_region.object_offset
    /\ Last(log).at > regions.val.metadata_region.object_offset
    /\ \E i \in 1..Len(bat.val[1]) : bat.val[1][i].state # "NotPresent"
    /\ bat = read_bat(Handle(CurrentFile, 0), regions.val.bat_region, metadata.val[2],
                      IsSome(parent_locator), build)


\* the quotient q is the floor of n / d: the largest integer not above it
IsFloorOf(q, n, d) ==
    IF d > 0 THEN q * d <= n /\ n < (q + 1) * d
    ELSE q * d >= n /\ n > (q + 1) * d

\* the quotient q is the ceiling of n / d: the smallest integer not below it
IsCeilingOf(q, n, d) ==
    IF d > 0 THEN (q - 1) * d < n /\ n <= q * d
    ELSE (q - 1) * d > n /\ n >= q * d

\* a division of the signed implementation with operands n and d
SignedDivision(n, d) == division # None /\ division.t = "i64" /\ division.n = n /\ division.d = d

\* C17: for every n and every non-zero d within the bounds, ceiling_divide
\* returns the mathematical ceiling and floor_divide the mathematical floor
\* of n / d, in the unsigned and in the signed implementation; for positive
\* operands (ceiling - 1) * d < n <= ceiling * d, and the signed
\* floor_divide(-7, 2) is -4 and ceiling_divide(-7, 2) is -3.
C17_DivideIsFloorAndCeiling ==
    (division # None /\ division.d # 0) =>
        /\ division.ceiling # None =>
               /\ division.ceiling.val.tag = "Ok"
               /\ IsCeilingOf(division.ceiling.val.val, division.n, division.d)
               /\ (division.n > 0 /\ division.d > 0) =>
                      /\ (division.ceiling.val.val - 1) * division.d < division.n
                      /\ division.n <= division.ceiling.val.val * division.d
               /\ SignedDivision(0 - 7, 2) => division.ceiling.val.val = 0 - 3
        /\ division.floor # None =>
               /\ division.floor.val.tag = "Ok"
               /\ IsFloorOf(division.floor.val.val, division.n, division.d)
               /\ SignedDivision(0 - 7, 2) => division.floor.val.val = 0 - 4

\* both signed divisions of -7 by 2 have been made
C17_MinusSevenByTwo ==
    /\ SignedDivision(0 - 7, 2)
    /\ division.ceiling # None
    /\ division.floor # None


\* the 0-based index in the BAT of sector entry k (from 1) when every
\* non-zero multiple of chunk_ratio + 1 is a sector entry
SectorIndexOf(k, chunk_ratio) == k * (chunk_ratio + 1)

\* the 0-based index in the BAT of payload entry j (from 1) when every
\* non-zero multiple of chunk_ratio + 1 is a sector entry: chunk_ratio + 1
\* payload entries come first, then one sector entry before every further
\* chunk_ratio payload entries
PayloadIndexOf(j, chunk_ratio) ==
    IF j - 1 <= chunk_ratio THEN j - 1
    ELSE j + ((j - 2 - chunk_ratio) \div chunk_ratio)

\* C18: when sector entries are decoded, the entry at 0-based index n of the
\* BAT is decoded as a sector entry if and only if n is a non-zero multiple
\* of chunk_ratio + 1, every other index (index 0 too) as a payload entry,
\* and both result sequences keep the on-disk order.
C18_SectorsAtMultiples ==
    (AfterReadBat /\ IsOk(bat) /\ IsSome(parent_locator)) =>
        LET chunk_ratio == calculate_block_values(metadata.val[2], build).val.chunk_ratio
            word(n)     == BatWordAt(CurrentFile, regions.val.bat_region.object_offset, n)
            payload     == bat.val[1]
            sector      == bat.val[2]
        IN  /\ DecodedCount > 0 => Len(sector) = (DecodedCount - 1) \div (chunk_ratio + 1)
            /\ \A k \in 1..Len(sector) :
                   sector[k] = StripKind(SectorEntry(word(SectorIndexOf(k, chunk_ratio))).val)
            /\ \A j \in 1..Len(payload) :
                   /\ PayloadIndexOf(j, chunk_ratio) = 0
                         \/ PayloadIndexOf(j, chunk_ratio) % (chunk_ratio + 1) # 0
                   /\ payload[j] = StripKind(PayloadEntry(word(PayloadIndexOf(j, chunk_ratio))).val)

\* a decode with two sector entries or more, one of them present, and a
\* payload entry behind the first sector entry that is present too
C18_PresentSectorDecoded ==
    /\ AfterReadBat /\ IsOk(bat) /\ IsSome(parent_locator)
    /\ Len(bat.val[2]) >= 2
    /\ \E k \in 1..Len(bat.val[2]) : bat.val[2][k].state = "Present"
    /\ LET chunk_ratio == calculate_block_values(metadata.val[2], build).val.chunk_ratio
       IN  Len(bat.val[1]) > chunk_ratio + 1
               /\ bat.val[1][chunk_ratio + 2].state \in {"FullyPresent", "PartiallyPresent"}


\* the end of the metadata region of the current file
MetadataRegionEnd ==
    regions.val.metadata_region.object_offset + regions.val.metadata_region.object_length

\* where the value read of directory entry i (from 1) of the decoded
\* directory leaves the cursor
ValueReadEnd(i) ==
    MetadataValueRead(CurrentFile, metadata.val[1].entries[i],
                      regions.val.metadata_region.object_offset).val.pos

\* C19 as stated: read_metadata fails if any value read of the value phase
\* ended at a file position past region_start + region_length, also when a
\* later read ends back inside the region: after a successful read_metadata
\* no value read has ended beyond the metadata region.
C19_NoValueReadPastRegion ==
    (AfterReadMetadata /\ IsOk(metadata)) =>
        \A i \in 1..Len(metadata.val[1].entries) : ValueReadEnd(i) <= MetadataRegionEnd

\* read_metadata succeeded although a value read before the last one ended
\* behind the region; the last read ended inside it
C19_StrayReadAccepted ==
    /\ AfterReadMetadata /\ IsOk(metadata)
    /\ LET count == Len(metadata.val[1].entries)
       IN  /\ count > 1
           /\ ValueReadEnd(count) <= MetadataRegionEnd
           /\ \E i \in 1..(count - 1) : ValueReadEnd(i) > MetadataRegionEnd


\* the bytes of the metadata directory: its header and its entries
DirectoryBytes(entry_count) == METADATA_HEADER_LEN + (entry_count * METADATA_ENTRY_LEN)

\* C20 as stated: after a successful decode of the metadata directory the
\* directory fits inside its region: 32 bytes of header plus entry_count * 32
\* bytes of entries are at most the declared length of the metadata region.
C20_DirectoryFitsRegion ==
    (AfterReadMetadata /\ IsOk(DirectoryRead)) =>
        DirectoryBytes(DirectoryRead.val.entry_count) <= regions.val.metadata_region.object_length

\* read_metadata succeeded on a region whose declared length is smaller than
\* the header of the directory it decoded
C20_HeaderOutsideRegion ==
    /\ AfterReadMetadata /\ IsOk(metadata)
    /\ regions.val.metadata_region.object_length < METADATA_HEADER_LEN

\* the object ids of the directory entries within the entry count of the
\* metadata area of the current file, as they stand in the file
CountedObjectIds ==
    { MetadataSlotAt(CurrentFile, regions.val.metadata_region.object_offset, n).object_id :
        n \in 0..(MetadataArea.entry_count - 1) }

\* C21: read_metadata fails for every metadata directory that holds an entry
\* of kind Unknown (an object id that is none of the six well-known ids),
\* also when the entry is not marked required and the directory phase has
\* accepted it: no Metadata is returned for such a directory.
C21_UnknownEntryFails ==
    (AfterReadMetadata /\ MetadataArea.kind = "metadata") =>
        ((\E id \in CountedObjectIds : id \notin WellKnownMetadataIds) =>
            /\ ~IsOk(metadata)
            /\ IsOk(DirectoryRead) =>
                   metadata \in { Err("Unknown metadata type encountered."),
                                  Panic("Failed to read parent locator entry String"),
                                  Err("Parent locator value contains a null."),
                                  Err("invalid UUID text"),
                                  Err("Unknown parent locator key.") })

\* the directory phase accepted a directory whose last entry is unknown and
\* not required, every value before it was read, and read_metadata failed on
\* the unknown entry
C21_OptionalUnknownRejected ==
    /\ AfterReadMetadata
    /\ MetadataArea.kind = "metadata"
    /\ MetadataArea.entry_count = Len(MetadataArea.slots)
    /\ MetadataArea.entry_count > 1
    /\ MetadataArea.slots[MetadataArea.entry_count].object_id \notin WellKnownMetadataIds
    /\ ~UnknownRequired(MetadataArea.slots[MetadataArea.entry_count])
    /\ \A i \in 1..(MetadataArea.entry_count - 1) :
           MetadataArea.slots[i].object_id \in WellKnownMetadataIds
    /\ IsOk(DirectoryRead)
    /\ metadata = Err("Unknown metadata type encountered.")

\* the 0-based indices of the entries within the entry count of a
\* region-directory copy that the file model tells apart: the explicit slots
\* and the first fill entry
CopyIndices(b) == { n \in 0..Len(b.slots) : n < b.entry_count }

\* the byte offset of entry n (from 0) of the copy at table_offset
RegionEntryOffset(table_offset, n) ==
    table_offset + REGION_TAB_HEADER_LEN + (n * REGION_TAB_ENTRY_LEN)

\* a raw entry whose object id is neither BAT nor Metadata, whose offset and
\* length keep the rules, and whose flags word has bit 0 clear
UnknownNotBitZero(raw) ==
    /\ raw.object_id \notin {REGION_BAT, REGION_METADATA}
    /\ raw.object_offset >= MiB
    /\ raw.object_offset % MiB = 0
    /\ raw.object_length % MiB = 0
    /\ raw.flags % 2 = 0

\* C22 as stated: the required flag of a region entry is bit 0 of its flags
\* word: an entry decodes as required if and only if bit 0 is set, so an
\* Unknown entry whose flags have bit 0 clear (other bits may be set) is not
\* rejected.
C22_RequiredIsBitZero ==
    AfterCall("region") =>
        \A table_offset \in {FIRST_REGION_TAB_OFFSET, SECOND_REGION_TAB_OFFSET} :
            \A n \in CopyIndices(CurrentFile.region[table_offset]) :
                LET entry_offset == RegionEntryOffset(table_offset, n)
                    raw          == RegionSlotAt(CurrentFile, entry_offset)
                    entry        == read_region_entry(CurrentFile, entry_offset)
                IN  /\ IsOk(entry) => (entry.val.required <=> raw.flags % 2 = 1)
                    /\ UnknownNotBitZero(raw) => IsOk(entry)

\* both copies carry the signature and their checksum, the second entry of
\* the first copy is Unknown with the flags word 2 (bit 0 clear), and
\* read_region has rejected it as required
C22_FlagsTwoRejected ==
    /\ AfterCall("region")
    /\ RegionCopySealed(CurrentFile.region[FIRST_REGION_TAB_OFFSET])
    /\ RegionCopySealed(CurrentFile.region[SECOND_REGION_TAB_OFFSET])
    /\ CurrentFile.region[FIRST_REGION_TAB_OFFSET].entry_count = 2
    /\ UnknownNotBitZero(CurrentFile.region[FIRST_REGION_TAB_OFFSET].slots[2])
    /\ CurrentFile.region[FIRST_REGION_TAB_OFFSET].slots[2].flags = 2
    /\ region_table = Err("Required object ID is not recognised by this version of this program.")

\* the directory entry of the parent locator and whether it is the entry
\* read_metadata_values reads last
LocatorSlot ==
    MetadataArea.slots[CHOOSE j \in CountedSlots(MetadataArea) :
                           MetadataArea.slots[j].object_id = METADATA_PARENT_LOCATOR]

LocatorReadLast ==
    \A j \in CountedSlots(MetadataArea) :
        MetadataArea.slots[j].object_id = METADATA_PARENT_LOCATOR
            => \A k \in CountedSlots(MetadataArea) : k <= j

\* the descriptor of the last key/value pair of the locator
LastDescriptor == RawLocator.entries[RawLocator.key_value_count]

LocatorJustRead ==
    /\ AfterReadMetadata /\ IsOk(metadata)
    /\ HasLocatorSlot /\ LocatorReadLast
    /\ RawLocator.key_value_count > 0
    /\ RawLocator.key_value_count <= Len(RawLocator.entries)

\* C23: each parent-locator key and value string is read at the absolute file
\* position metadata_region_start + key_offset (respectively + value_offset):
\* when the locator is the last value read_metadata reads, the file cursor it
\* leaves behind is the end of the last value string, at metadata_region_start
\* + value_offset + the bytes of that string.
C23_StringsAtRegionOffsets ==
    LocatorJustRead =>
        cursor = regions.val.metadata_region.object_offset
                 + LastDescriptor.value_offset + 2 * (LastDescriptor.value_length \div 2)

\* a locator has been read whose last value string ended at the start of the
\* locator item + value_offset + the bytes of the string, the item starting
\* object_offset bytes into the metadata region
C23_StringsAtItemOffsets ==
    /\ LocatorJustRead
    /\ LocatorSlot.object_offset > 0
    /\ cursor = regions.val.metadata_region.object_offset + LocatorSlot.object_offset
                + LastDescriptor.value_offset + 2 * (LastDescriptor.value_length \div 2)

\* C24: for every Metadata value that read_metadata returns, including
\* block_size = 0 (no FileParameters entry) and virtual_disk_size = 0,
\* calculate_block_values ends by returning a value or an error: it does not
\* panic on a division by zero, and it does not evaluate payload_blocks - 1
\* with payload_blocks = 0, neither panicking on it nor returning a count
\* computed from the wrapped difference.
C24_BlockValuesAlwaysReturn ==
    AfterReadBat =>
        LET md == metadata.val[2]
            v  == calculate_block_values(md, build)
        IN  /\ v.tag # "Panic"
            /\ (IsOk(v) /\ IsSome(md.parent_locator)) => v.val.payload_blocks >= 1

\* read_bat was called in a build with overflow checks on metadata with a
\* parent locator, a non-zero block size and virtual_disk_size 0, and the
\* subtraction payload_blocks - 1 has panicked
C24_SubtractionUnderflows ==
    /\ AfterReadBat
    /\ build = "debug"
    /\ metadata.val[2].file_parameters.block_size # 0
    /\ metadata.val[2].virtual_disk_size = 0
    /\ IsSome(metadata.val[2].parent_locator)
    /\ calculate_block_values(metadata.val[2], build) = Panic("attempt to subtract with overflow")
    /\ bat = Panic("attempt to subtract with overflow")
    /\ exit = "panic"

\* the file just decoded names itself as its parent by a locator of the VHDX
\* type: a chain with a cycle
SelfParent ==
    LET md == metadata.val[2]
    IN  /\ IsSome(md.parent_locator)
        /\ md.parent_locator.val.locator_type = "Vhdx"
        /\ calc_parent_path(md.parent_locator.val, files) = Ok(file_path)

\* the file just decoded has a parent locator whose type is not the VHDX type
UnfollowableParent ==
    LET md == metadata.val[2]
    IN  /\ IsSome(md.parent_locator)
        /\ md.parent_locator.val.locator_type # "Vhdx"

\* C25: with chain following enabled, the decode loop terminates whenever the
\* parent chain is finite and acyclic and every file in it decodes
\* successfully: an iteration that has decoded its file, the file not being
\* its own parent, either goes on to open a different file or ends the walk,
\* and it ends the walk, with no further pass left undone, when the file's
\* parent locator is not of the well-known VHDX type.
C25_WalkMovesOnOrEnds ==
    [][ (exit = "running" /\ pc = "finish" /\ follow_chain /\ ~SelfParent) =>
            /\ pc' = "open" => file_path' # file_path
            /\ UnfollowableParent => (pc' = "end" /\ exit' # "cut") ]_vars

\* with chain following enabled a further pass over the same file is about to
\* start: the pass before it decoded the file successfully and found a parent
\* locator it did not follow
C25_SameFileReadAgain ==
    /\ follow_chain
    /\ exit = "running" /\ pc = "open"
    /\ pass > 1
    /\ parent_locator = None
    /\ \E i \in 1..Len(log) :
           /\ log[i].stage = "finish" /\ log[i].tag = "Ok"
           /\ log[i].pass = pass - 1
           /\ log[i].path = file_path
    /\ \A i \in 1..Len(log) : log[i].path = file_path

=============================================================================
